---- MODULE Spec2Model ----
(***************************************************************************)
(* Verification model of the prisma-playground query pipeline:              *)
(*   parseUserQuery  (pages/api/query.ts)  - active statement locator       *)
(*   build*Query     (virtual-prisma-client) - query compiler               *)
(*   handler / VirtualModel methods        - execution against the store    *)
(*                                                                          *)
(* Source text is modelled as a sequence of lines, a line as a sequence of  *)
(* lexical tokens (strings).  White space between two tokens is implicit;   *)
(* the token " " stands for leading or trailing white space of a line.      *)
(* JavaScript values are modelled by their literal text ("true", "5").      *)
(***************************************************************************)
EXTENDS Integers, Sequences, FiniteSets, TLC

\* ------------------------------------------------------------------------
\* State
\* ------------------------------------------------------------------------
\* parseUserQuery run on its own (the locator specification)
VARIABLES
  lines,           \* queryString.split('\n')
  stage,           \* the part of parseUserQuery that runs next
  currentVarName,  \* the target binding, "" while none
  blockLines,      \* the accumulated statement block
  methodMatch,     \* the result of the method regular expression
  payloadStr,      \* the text between the call's parentheses
  parseError       \* the Error parseUserQuery threw, "" while none

\* a query builder run on its own (the compiler specification)
VARIABLES
  cKind,      \* which builder is applied
  cModel,     \* its modelName argument
  cArgs,      \* its args argument
  compiled    \* None, or Some(the builder's result)

\* the request handler and the store (the handler specification)
VARIABLES
  pc,         \* where each request handler stands
  sessionId,  \* req.body.sessionId of each request
  query,      \* req.body.query of each request, split into lines
  parsed,     \* what parseUserQuery returned or threw
  prisma,     \* the handler's local prisma: TRUE once the client is assigned
  client,     \* the pg connection of the request
  existing,   \* the record upsert and delete looked up first
  count,      \* the counter of createMany
  result,     \* what the model method returned or threw
  response,   \* the JSON responses sent, in order
  store,      \* the rows of every table and its id sequence
  sqlLog      \* every statement passed to client.query, in order

\* the session client cache (the cache specification)
VARIABLES
  clientCache,    \* Map sessionId -> { client, createdAt }, None for no entry
  now,            \* Date.now(), in milliseconds
  nextSweep,      \* when the cleanup timer is due next
  conns,          \* every pg connection created, in order of creation
  callerPc,       \* where each caller of checkSessionConnection stands
  callerSession,  \* its sessionId argument
  callerClient,   \* the connection of the client it got, 0 for none
  callerResult,   \* what checkSessionConnection returned
  cacheLog        \* the console lines of the cache, in order

locVars == <<lines, stage, currentVarName, blockLines, methodMatch, payloadStr, parseError>>

compVars == <<cKind, cModel, cArgs, compiled>>

hVars == <<pc, sessionId, query, parsed, prisma, client, existing, count, result, response, store, sqlLog>>

cacheVars == <<clientCache, now, nextSweep, conns, callerPc, callerSession,
               callerClient, callerResult, cacheLog>>

vars == <<locVars, compVars, hVars, cacheVars>>

\* ------------------------------------------------------------------------
\* Bounds of the model
\* ------------------------------------------------------------------------
MaxLines == 4

\* ------------------------------------------------------------------------
\* Tokens
\* ------------------------------------------------------------------------
\* tokens that contain a character outside \w (BACKTICK names the backquote)
NonWord == {"//", "(", ")", "{", "}", "[", "]", ".", "=", ",", ":", ";",
            "\"", "'", "BACKTICK", "\\", " ", "\n", "console.log"}

\* the regular expression class \w+
IsWord(t) == t \notin NonWord

\* the regular expression class \s
IsSpace(t) == t \in {" ", "\n"}

\* String.prototype.trim
RECURSIVE TrimLeft(_)
TrimLeft(line) ==
  IF line # << >> /\ IsSpace(Head(line)) THEN TrimLeft(Tail(line)) ELSE line

RECURSIVE TrimRight(_)
TrimRight(line) ==
  IF line # << >> /\ IsSpace(line[Len(line)])
  THEN TrimRight(SubSeq(line, 1, Len(line) - 1)) ELSE line

Trim(line) == TrimRight(TrimLeft(line))

\* trimmedLine.startsWith('//')
StartsWithComment(line) == Trim(line) # << >> /\ Trim(line)[1] = "//"

\* String.prototype.includes for a token pattern
Includes(line, pat) ==
  \E j \in 1..Len(line) :
     j + Len(pat) - 1 <= Len(line) /\ SubSeq(line, j, j + Len(pat) - 1) = pat

\* String.prototype.endsWith for a token pattern
EndsWith(line, pat) ==
  Len(pat) <= Len(line) /\ SubSeq(line, Len(line) - Len(pat) + 1, Len(line)) = pat

\* /console\.log\((\w+)\)/ matches at token j
LogMatchAt(line, j) ==
  /\ j + 3 <= Len(line)
  /\ line[j] = "console.log" /\ line[j + 1] = "("
  /\ IsWord(line[j + 2]) /\ line[j + 3] = ")"

\* trimmedLine.match(/console\.log\((\w+)\)/): match[1], or "" when no match
LogMatch(line) ==
  LET js == {j \in 1..Len(line) : LogMatchAt(line, j)}
  IN IF js = {} THEN ""
     ELSE line[(CHOOSE j \in js : \A k \in js : j <= k) + 2]

\* the guard of the console.log loop: an uncommented line holding a log call
IsActiveLogLine(line) ==
  /\ ~StartsWithComment(line)
  /\ Includes(Trim(line), <<"console.log", "(">>)
  /\ Includes(Trim(line), <<")">>)
  /\ LogMatch(Trim(line)) # ""

\* /const\s+(\w+)\s*=/ matches at token j
ConstMatchAt(line, j) ==
  /\ j + 2 <= Len(line)
  /\ line[j] = "const" /\ IsWord(line[j + 1]) /\ line[j + 2] = "="

\* trimmedLine.match(/const\s+(\w+)\s*=/): match[1], or "" when no match
ConstMatch(line) ==
  LET js == {j \in 1..Len(line) : ConstMatchAt(line, j)}
  IN IF js = {} THEN ""
     ELSE line[(CHOOSE j \in js : \A k \in js : j <= k) + 1]

\* the guard of the fallback loop: an uncommented const ... await prisma line
IsActiveConstLine(line) ==
  /\ ~StartsWithComment(line)
  /\ \E j \in 1..(Len(Trim(line)) - 1) : Trim(line)[j] = "const"
  /\ Includes(Trim(line), <<"await", "prisma">>)
  /\ ConstMatch(Trim(line)) # ""

\* the first index >= j of s that is not white space (Len(s) + 1 when none)
RECURSIVE SkipSpace(_, _)
SkipSpace(s, j) ==
  IF j <= Len(s) /\ IsSpace(s[j]) THEN SkipSpace(s, j + 1) ELSE j

\* s holds token t at index j
At(s, j, t) == j <= Len(s) /\ s[j] = t

\* ------------------------------------------------------------------------
\* parseUserQuery, step 1: the target binding
\* ------------------------------------------------------------------------
\* a variant of the console.log loop that keeps scanning and so returns the
\* last log call
currentVarNameByLastLog(src) ==
  LET is == {i \in 1..Len(src) : IsActiveLogLine(src[i])}
  IN IF is = {} THEN ""
     ELSE LogMatch(Trim(src[CHOOSE i \in is : \A k \in is : k <= i]))

\* the console.log loop: the first uncommented log call, then break
currentVarNameByLog(src) ==
  LET is == {i \in 1..Len(src) : IsActiveLogLine(src[i])}
  IN IF is = {} THEN ""
     ELSE LogMatch(Trim(src[CHOOSE i \in is : \A k \in is : i <= k]))

\* a variant of the fallback loop that does not skip comment lines
currentVarNameByAnyConst(src) ==
  LET is == {i \in 1..Len(src) : ConstMatch(Trim(src[i])) # ""
                                   /\ Includes(Trim(src[i]), <<"await", "prisma">>)}
  IN IF is = {} THEN ""
     ELSE ConstMatch(Trim(src[CHOOSE i \in is : \A k \in is : i <= k]))

\* the fallback loop: the first uncommented const ... await prisma line
currentVarNameByConst(src) ==
  LET is == {i \in 1..Len(src) : IsActiveConstLine(src[i])}
  IN IF is = {} THEN ""
     ELSE ConstMatch(Trim(src[CHOOSE i \in is : \A k \in is : i <= k]))

\* ------------------------------------------------------------------------
\* parseUserQuery, step 2: the statement block
\* ------------------------------------------------------------------------
BlockLineCap == 100

\* new RegExp(`const\\s+${v}\\s*=\\s*await\\s+prisma`) matches at token j
StartPatternAt(line, v, j) ==
  LET j1 == SkipSpace(line, j + 1)
      j2 == SkipSpace(line, j1 + 1)
      j3 == SkipSpace(line, j2 + 1)
      j4 == SkipSpace(line, j3 + 1)
  IN /\ At(line, j, "const") /\ At(line, j1, v) /\ At(line, j2, "=")
     /\ At(line, j3, "await") /\ At(line, j4, "prisma")

\* startPattern.test(line): tested on the raw line, comment or not
StartPatternTest(line, v) == \E j \in 1..Len(line) : StartPatternAt(line, v, j)

IsQuote(c) == c \in {"\"", "'", "BACKTICK"}

ScanInit == [brace |-> 0, paren |-> 0, inString |-> FALSE, stringChar |-> ""]

\* one character of the block loop: string detection, then level counting
ScanChar(st, char, prevChar) ==
  LET s1 == IF IsQuote(char) /\ prevChar # "\\"
            THEN (IF ~st.inString
                  THEN [st EXCEPT !.inString = TRUE, !.stringChar = char]
                  ELSE IF char = st.stringChar
                       THEN [st EXCEPT !.inString = FALSE, !.stringChar = ""]
                       ELSE st)
            ELSE st
  IN IF s1.inString THEN s1
     ELSE [s1 EXCEPT !.brace = @ + (IF char = "{" THEN 1 ELSE 0)
                                 - (IF char = "}" THEN 1 ELSE 0),
                     !.paren = @ + (IF char = "(" THEN 1 ELSE 0)
                                 - (IF char = ")" THEN 1 ELSE 0)]

\* the inner for loop over the characters j..length of one line
RECURSIVE ScanLine(_, _, _)
ScanLine(st, line, j) ==
  IF j > Len(line) THEN st
  ELSE LET s1 == ScanChar(st, line[j], IF j > 1 THEN line[j - 1] ELSE "")
       IN IF s1 = st THEN ScanLine(st, line, j + 1) ELSE ScanLine(s1, line, j + 1)

\* a variant of the end-of-block test that asks for a parenthesis level
\* of exactly zero
BlockEndsAtZero(st, line) ==
  /\ st.brace = 0 /\ st.paren = 0
  /\ \/ EndsWith(Trim(line), <<")">>)
     \/ EndsWith(Trim(line), <<"}", ")">>)
     \/ EndsWith(Trim(line), <<"}", ",">>)

\* the end-of-block test made after each accumulated line
BlockEnds(st, line) ==
  /\ st.brace = 0 /\ st.paren <= 0
  /\ \/ EndsWith(Trim(line), <<")">>)
     \/ EndsWith(Trim(line), <<"}", ")">>)
     \/ EndsWith(Trim(line), <<"}", ",">>)

\* the levels after the lines lo..hi, st the levels before them; the lines
\* are taken in order, by halves
RECURSIVE ScanLines(_, _, _, _)
ScanLines(st, src, lo, hi) ==
  IF lo > hi THEN st
  ELSE IF lo = hi THEN ScanLine(st, src[lo], 1)
  ELSE LET s1 == ScanLines(st, src, lo, (lo + hi) \div 2)
       IN IF s1 = st THEN ScanLines(st, src, (lo + hi) \div 2 + 1, hi)
          ELSE ScanLines(s1, src, (lo + hi) \div 2 + 1, hi)

\* the outer for loop: from the first line the start pattern matches to
\* the first line after which the loop breaks, or to the last line
BlockOf(src, v) ==
  LET starts == {i \in 1..Len(src) : StartPatternTest(src[i], v)}
      start  == CHOOSE i \in starts : \A k \in starts : i <= k
      breaks == {i \in start..Len(src) :
                   \/ BlockEnds(ScanLines(ScanInit, src, start, i), src[i])
                   \/ i - start + 1 > BlockLineCap}
  IN IF starts = {} THEN << >>
     ELSE IF breaks = {} THEN SubSeq(src, start, Len(src))
     ELSE SubSeq(src, start, CHOOSE i \in breaks : \A k \in breaks : i <= k)

\* blockLines.join('\n')
RECURSIVE JoinLines(_)
JoinLines(ls) ==
  IF ls = << >> THEN << >>
  ELSE IF Len(ls) = 1 THEN ls[1]
  ELSE ls[1] \o <<"\n">> \o JoinLines(Tail(ls))

\* ------------------------------------------------------------------------
\* parseUserQuery, step 3: model, action and payload text
\* ------------------------------------------------------------------------
\* /await\s+prisma\.(\w+)\.(\w+)\s*\(/ matches at token j; the index of "("
MethodParenAt(b, j) ==
  LET j1 == SkipSpace(b, j + 1)
      j6 == SkipSpace(b, j1 + 5)
  IN IF /\ At(b, j, "await") /\ At(b, j1, "prisma")
        /\ At(b, j1 + 1, ".") /\ j1 + 2 <= Len(b) /\ IsWord(b[j1 + 2])
        /\ At(b, j1 + 3, ".") /\ j1 + 4 <= Len(b) /\ IsWord(b[j1 + 4])
        /\ At(b, j6, "(")
     THEN j6 ELSE 0

\* activeQueryBlock.match(...): [found, model, action, paren]
MethodMatch(b) ==
  LET js == {j \in 1..Len(b) : MethodParenAt(b, j) # 0}
  IN IF js = {} THEN [found |-> FALSE, model |-> "", action |-> "", paren |-> 0]
     ELSE LET j  == CHOOSE j \in js : \A k \in js : j <= k
              j1 == SkipSpace(b, j + 1)
          IN [found |-> TRUE, model |-> b[j1 + 2], action |-> b[j1 + 4],
              paren |-> MethodParenAt(b, j)]

\* the loop that looks for the matching ")": payloadEndIndex, or -1
RECURSIVE PayloadEnd(_, _, _, _, _)
PayloadEnd(b, i, parenCounter, insideString, stringDelimiter) ==
  IF i > Len(b) THEN -1
  ELSE LET char == b[i]
           prevChar == IF i > 1 THEN b[i - 1] ELSE ""
           toggles == IsQuote(char) /\ prevChar # "\\"
           ins == IF toggles /\ ~insideString THEN TRUE
                  ELSE IF toggles /\ char = stringDelimiter THEN FALSE
                  ELSE insideString
           del == IF toggles /\ ~insideString THEN char
                  ELSE IF toggles /\ char = stringDelimiter THEN ""
                  ELSE stringDelimiter
           pc1 == IF ~ins /\ char = "(" THEN parenCounter + 1
                  ELSE IF ~ins /\ char = ")" THEN parenCounter - 1
                  ELSE parenCounter
       IN IF pc1 = 0 /\ ~ins /\ char = ")" THEN i
          ELSE PayloadEnd(b, i + 1, pc1, ins, del)

\* payloadStr: the trimmed text between the call's parentheses
PayloadStrOf(b, payloadStartIndex) ==
  LET payloadEndIndex == PayloadEnd(b, payloadStartIndex, 0, FALSE, "")
  IN IF payloadEndIndex > payloadStartIndex
     THEN Trim(SubSeq(b, payloadStartIndex + 1, payloadEndIndex - 1))
     ELSE << >>

\* ------------------------------------------------------------------------
\* JavaScript values and objects
\* ------------------------------------------------------------------------
\* A scalar is modelled by its literal text.  An object is the sequence of
\* its own properties [k, v] in Object.entries order.  An optional property
\* is None when absent and Some(x) when present.
None == << >>
Some(x) == <<x>>
IsSome(o) == o # << >>
Val(o) == o[1]

\* what new Date() yields
NOW == "NOW"

\* ToBoolean on a scalar
Truthy(v) == v \notin {"0", "false", "null", "undefined", "''"}

Keys(obj) == [i \in 1..Len(obj) |-> obj[i].k]

HasKey(obj, key) == \E i \in 1..Len(obj) : obj[i].k = key

\* obj[key], "undefined" for a missing key
Get(obj, key) ==
  IF HasKey(obj, key) THEN obj[CHOOSE i \in 1..Len(obj) : obj[i].k = key].v
  ELSE "undefined"

\* obj[key] = v: an own key keeps its place, a new key goes last
Put(obj, key, v) ==
  IF HasKey(obj, key)
  THEN [i \in 1..Len(obj) |-> IF obj[i].k = key THEN [k |-> key, v |-> v] ELSE obj[i]]
  ELSE Append(obj, [k |-> key, v |-> v])

\* { ...a, ...b }
RECURSIVE Spread(_, _)
Spread(a, b) ==
  IF b = << >> THEN a ELSE Spread(Put(a, Head(b).k, Head(b).v), Tail(b))

\* Array.prototype.join on strings
RECURSIVE Join(_, _)
Join(strs, sep) ==
  IF strs = << >> THEN ""
  ELSE IF Len(strs) = 1 THEN strs[1]
  ELSE strs[1] \o sep \o Join(Tail(strs), sep)

\* ------------------------------------------------------------------------
\* SCHEMA_MAPPING
\* ------------------------------------------------------------------------
Field(l, p) == [k |-> l, v |-> p]

SCHEMA_MAPPING ==
  [user     |-> [table |-> "users",
                 fields |-> <<Field("id", "id"), Field("email", "email"),
                              Field("name", "name"), Field("bio", "bio"),
                              Field("createdAt", "createdAt"),
                              Field("updatedAt", "updatedAt")>>],
   profile  |-> [table |-> "profiles",
                 fields |-> <<Field("id", "id"), Field("avatar", "avatar"),
                              Field("website", "website"),
                              Field("twitter", "twitter"),
                              Field("userId", "userId")>>],
   post     |-> [table |-> "posts",
                 fields |-> <<Field("id", "id"), Field("title", "title"),
                              Field("content", "content"),
                              Field("published", "published"),
                              Field("views", "views"),
                              Field("authorId", "authorId"),
                              Field("categoryId", "categoryId"),
                              Field("createdAt", "createdAt"),
                              Field("updatedAt", "updatedAt")>>],
   category |-> [table |-> "categories",
                 fields |-> <<Field("id", "id"), Field("name", "name"),
                              Field("description", "description"),
                              Field("color", "color")>>],
   tag      |-> [table |-> "tags",
                 fields |-> <<Field("id", "id"), Field("name", "name")>>],
   postTag  |-> [table |-> "post_tags",
                 fields |-> <<Field("postId", "postId"), Field("tagId", "tagId")>>],
   comment  |-> [table |-> "comments",
                 fields |-> <<Field("id", "id"), Field("content", "content"),
                              Field("authorId", "authorId"),
                              Field("postId", "postId"),
                              Field("parentId", "parentId"),
                              Field("createdAt", "createdAt")>>]]

ModelNames == DOMAIN SCHEMA_MAPPING

\* every identifier the schema descriptor of a model provides
SchemaIdents(modelName) ==
  {SCHEMA_MAPPING[modelName].table}
  \cup {SCHEMA_MAPPING[modelName].fields[i].v :
          i \in 1..Len(SCHEMA_MAPPING[modelName].fields)}

\* ------------------------------------------------------------------------
\* Query compiler: buildSelectQuery, buildInsertQuery, buildUpdateQuery,
\* buildDeleteQuery and the inline builder of count
\* ------------------------------------------------------------------------
\* A compiled query carries the SQL text (query), the parameter list
\* (values) and, for the properties stated about the text, the pieces the
\* text was assembled from: the clause keywords in order, the quoted
\* identifiers per clause and the numbers of the $n placeholders in order.

Compiled0 ==
  [error |-> "", query |-> "", values |-> << >>, clauses |-> << >>,
   table |-> "", whereCols |-> << >>, orderCols |-> << >>, setCols |-> << >>,
   insertCols |-> << >>, setIdx |-> << >>, insertIdx |-> << >>,
   whereIdx |-> << >>, limit |-> "", offset |-> ""]

\* throw new Error(`Modelo ${modelName} nao encontrado`)
NoModel(modelName) ==
  [Compiled0 EXCEPT !.error = "Modelo " \o modelName \o " nao encontrado"]

Quoted(ident) == "\"" \o ident \o "\""

\* properties every object inherits from Object.prototype
ProtoKeys == {"constructor", "toString"}

\* String(Object.prototype[key]) as it is interpolated into a template
ProtoText == "function () { [native code] }"

\* schema.fields[key]; "undefined" when neither own nor inherited
FieldOf(schema, key) ==
  IF HasKey(schema.fields, key) THEN Get(schema.fields, key)
  ELSE IF key \in ProtoKeys THEN ProtoText
  ELSE "undefined"

\* schema.fields[field] || field
DbField(schema, field) ==
  IF Truthy(FieldOf(schema, field)) THEN FieldOf(schema, field) ELSE field

\* a variant of the placeholder numbering that never advances
WhereIndexStuck(valueIndex, i) == valueIndex

\* a variant of the placeholder numbering that starts again at $1
WhereIndexFromOne(valueIndex, i) == i

\* valueIndex++ : the number of the placeholder of the i-th WHERE entry
WhereIndex(valueIndex, i) == valueIndex + i - 1

\* Object.entries(args.where).map(...): one condition per entry
WhereConditions(schema, where, valueIndex) ==
  [i \in 1..Len(where) |->
     [dbField |-> DbField(schema, where[i].k),
      index   |-> WhereIndex(valueIndex, i),
      value   |-> where[i].v]]

CondText(c) == Quoted(c.dbField) \o " = $" \o ToString(c.index)

Texts(conds) == [i \in 1..Len(conds) |-> CondText(conds[i])]

DbFields(conds) == [i \in 1..Len(conds) |-> conds[i].dbField]

Indexes(conds) == [i \in 1..Len(conds) |-> conds[i].index]

Values(conds) == [i \in 1..Len(conds) |-> conds[i].value]

\* String(direction).toUpperCase()
ToUpperCase(v) ==
  CASE v = "asc" -> "ASC" [] v = "desc" -> "DESC" [] OTHER -> v

\* Array.isArray(args.orderBy) ? args.orderBy : [args.orderBy]
OrderFields(orderBy) ==
  IF orderBy.isArray THEN orderBy.items ELSE <<orderBy.items[1]>>

\* orderFields.map(...): the first entry of every order object
OrderClauses(schema, orderBy) ==
  [i \in 1..Len(OrderFields(orderBy)) |->
     [dbField   |-> DbField(schema, OrderFields(orderBy)[i][1].k),
      direction |-> ToUpperCase(OrderFields(orderBy)[i][1].v)]]

OrderTexts(ocs) ==
  [i \in 1..Len(ocs) |-> Quoted(ocs[i].dbField) \o " " \o ocs[i].direction]

\* if (args.take)
TakeGiven(args) == IsSome(args.take) /\ Truthy(Val(args.take))

\* if (args.skip)
SkipGiven(args) == IsSome(args.skip) /\ Truthy(Val(args.skip))

buildSelectQuery(modelName, args) ==
  IF modelName \notin ModelNames THEN NoModel(modelName)
  ELSE
  LET schema == SCHEMA_MAPPING[modelName]
      conds  == IF IsSome(args.where)
                THEN WhereConditions(schema, Val(args.where), 1) ELSE << >>
      hasWhere == Len(conds) > 0
      hasOrder == IsSome(args.orderBy)
      ocs    == IF hasOrder THEN OrderClauses(schema, Val(args.orderBy)) ELSE << >>
  IN [Compiled0 EXCEPT
        !.query = "SELECT * FROM " \o Quoted(schema.table)
                  \o (IF hasWhere THEN " WHERE " \o Join(Texts(conds), " AND ") ELSE "")
                  \o (IF hasOrder THEN " ORDER BY " \o Join(OrderTexts(ocs), ", ") ELSE "")
                  \o (IF TakeGiven(args) THEN " LIMIT " \o Val(args.take) ELSE "")
                  \o (IF SkipGiven(args) THEN " OFFSET " \o Val(args.skip) ELSE ""),
        !.values = Values(conds),
        !.clauses = <<"SELECT">>
                  \o (IF hasWhere THEN <<"WHERE">> ELSE << >>)
                  \o (IF hasOrder THEN <<"ORDER BY">> ELSE << >>)
                  \o (IF TakeGiven(args) THEN <<"LIMIT">> ELSE << >>)
                  \o (IF SkipGiven(args) THEN <<"OFFSET">> ELSE << >>),
        !.table = schema.table,
        !.whereCols = DbFields(conds),
        !.whereIdx = Indexes(conds),
        !.orderCols = [i \in 1..Len(ocs) |-> ocs[i].dbField],
        !.limit = IF TakeGiven(args) THEN Val(args.take) ELSE "",
        !.offset = IF SkipGiven(args) THEN Val(args.skip) ELSE ""]

\* if (field in schema.fields && !enhancedData[field]) enhancedData[field] = new Date()
WithTimestamp(schema, enhancedData, field) ==
  IF (HasKey(schema.fields, field) \/ field \in ProtoKeys)
     /\ ~Truthy(Get(enhancedData, field))
  THEN Put(enhancedData, field, NOW)
  ELSE enhancedData

\* a variant of the key filter that keeps every key
AllKeys(schema, enhancedData) == Keys(enhancedData)

\* Object.keys(enhancedData).filter(key => schema.fields[key])
MappedKeys(schema, enhancedData) ==
  SelectSeq(Keys(enhancedData), LAMBDA key : Truthy(FieldOf(schema, key)))

buildInsertQuery(modelName, data) ==
  IF modelName \notin ModelNames THEN NoModel(modelName)
  ELSE
  LET schema == SCHEMA_MAPPING[modelName]
      enhancedData == WithTimestamp(schema,
                         WithTimestamp(schema, Spread(<< >>, data), "createdAt"),
                         "updatedAt")
      fields == MappedKeys(schema, enhancedData)
      dbFields == [i \in 1..Len(fields) |-> Quoted(FieldOf(schema, fields[i]))]
      placeholders == [i \in 1..Len(fields) |-> "$" \o ToString(i)]
  IN [Compiled0 EXCEPT
        !.query = "\n      INSERT INTO " \o Quoted(schema.table)
                  \o " (" \o Join(dbFields, ", ") \o ")"
                  \o "\n      VALUES (" \o Join(placeholders, ", ") \o ")"
                  \o "\n      RETURNING *\n    ",
        !.values = [i \in 1..Len(fields) |-> Get(enhancedData, fields[i])],
        !.clauses = <<"INSERT", "VALUES", "RETURNING">>,
        !.table = schema.table,
        !.insertCols = [i \in 1..Len(fields) |-> FieldOf(schema, fields[i])],
        !.insertIdx = [i \in 1..Len(fields) |-> i]]

buildUpdateQuery(modelName, args) ==
  IF modelName \notin ModelNames THEN NoModel(modelName)
  ELSE
  LET schema == SCHEMA_MAPPING[modelName]
      data == IF IsSome(args.data) THEN Val(args.data) ELSE << >>
      enhancedData == WithTimestamp(schema, Spread(<< >>, data), "updatedAt")
      setFields == MappedKeys(schema, enhancedData)
      setClauses == [i \in 1..Len(setFields) |->
                       Quoted(FieldOf(schema, setFields[i])) \o " = $" \o ToString(i)]
      setValues == [i \in 1..Len(setFields) |-> Get(enhancedData, setFields[i])]
      hasWhere == IsSome(args.where)
      conds == IF hasWhere
               THEN WhereConditions(schema, Val(args.where), Len(setValues) + 1)
               ELSE << >>
  IN [Compiled0 EXCEPT
        !.query = "UPDATE " \o Quoted(schema.table) \o " SET " \o Join(setClauses, ", ")
                  \o (IF hasWhere THEN " WHERE " \o Join(Texts(conds), " AND ") ELSE "")
                  \o " RETURNING *",
        !.values = setValues \o Values(conds),
        !.clauses = <<"UPDATE", "SET">>
                  \o (IF hasWhere THEN <<"WHERE">> ELSE << >>) \o <<"RETURNING">>,
        !.table = schema.table,
        !.setCols = [i \in 1..Len(setFields) |-> FieldOf(schema, setFields[i])],
        !.setIdx = [i \in 1..Len(setFields) |-> i],
        !.whereCols = DbFields(conds),
        !.whereIdx = Indexes(conds)]

buildDeleteQuery(modelName, args) ==
  IF modelName \notin ModelNames THEN NoModel(modelName)
  ELSE
  LET schema == SCHEMA_MAPPING[modelName]
      hasWhere == IsSome(args.where)
      conds == IF hasWhere THEN WhereConditions(schema, Val(args.where), 1) ELSE << >>
  IN [Compiled0 EXCEPT
        !.query = "DELETE FROM " \o Quoted(schema.table)
                  \o (IF hasWhere THEN " WHERE " \o Join(Texts(conds), " AND ") ELSE ""),
        !.values = Values(conds),
        !.clauses = <<"DELETE">> \o (IF hasWhere THEN <<"WHERE">> ELSE << >>),
        !.table = schema.table,
        !.whereCols = DbFields(conds),
        !.whereIdx = Indexes(conds)]

\* the query count() assembles inline
buildCountQuery(modelName, args) ==
  LET schema == SCHEMA_MAPPING[modelName]
      hasWhere == IsSome(args.where)
      conds == IF hasWhere THEN WhereConditions(schema, Val(args.where), 1) ELSE << >>
  IN [Compiled0 EXCEPT
        !.query = "SELECT COUNT(*) as count FROM " \o Quoted(schema.table)
                  \o (IF hasWhere THEN " WHERE " \o Join(Texts(conds), " AND ") ELSE ""),
        !.values = Values(conds),
        !.clauses = <<"SELECT COUNT">> \o (IF hasWhere THEN <<"WHERE">> ELSE << >>),
        !.table = schema.table,
        !.whereCols = DbFields(conds),
        !.whereIdx = Indexes(conds)]

\* ------------------------------------------------------------------------
\* The compiler applied to bounded arguments
\* ------------------------------------------------------------------------
MaxKeys == 2

\* the argument object of a model method; every property is optional
Args0 ==
  [where |-> None, data |-> None, dataArr |-> None, orderBy |-> None,
   take |-> None, skip |-> None, update |-> None, create |-> None]

\* all objects of at most n properties with keys in K and values in V
Objs(K, V, n) ==
  UNION {{s \in [1..m -> [k : K, v : V]] :
            \A i, j \in 1..m : i # j => s[i].k # s[j].k} : m \in 0..n}

Opt(S) == {None} \cup {Some(x) : x \in S}

CompModels == {"user", "post", "comment", "tag"}
WhereKeys  == {"id", "published", "evil"}
WhereVals  == {"1", "true"}
DataKeys   == {"title", "createdAt", "updatedAt", "evil"}
DataVals   == {"Hi", "0"}
TakeVals   == {"5", "0"}
SkipVals   == {"2", "0"}
OrderBys   ==
  {[isArray |-> FALSE, items |-> <<<<[k |-> "createdAt", v |-> "desc"]>>>>],
   [isArray |-> TRUE,  items |-> <<<<[k |-> "id", v |-> "asc"]>>,
                                   <<[k |-> "evil", v |-> "desc"]>>>>]}

SelectArgs ==
  {[Args0 EXCEPT !.where = w, !.orderBy = o, !.take = t, !.skip = s] :
     w \in Opt(Objs(WhereKeys, WhereVals, MaxKeys)), o \in Opt(OrderBys),
     t \in Opt(TakeVals), s \in Opt(SkipVals)}

WhereArgs ==
  {[Args0 EXCEPT !.where = w] : w \in Opt(Objs(WhereKeys, WhereVals, MaxKeys))}

InsertArgs ==
  {[Args0 EXCEPT !.data = Some(d)] : d \in Objs(DataKeys, DataVals, MaxKeys)}

UpdateArgs ==
  {[Args0 EXCEPT !.where = w, !.data = d] :
     w \in Opt(Objs(WhereKeys, WhereVals, MaxKeys)),
     d \in Opt(Objs(DataKeys, DataVals, MaxKeys))}

CompInit ==
  /\ cModel \in CompModels
  /\ compiled = None
  /\ \/ cKind = "select" /\ cArgs \in SelectArgs
     \/ cKind = "insert" /\ cArgs \in InsertArgs
     \/ cKind = "update" /\ cArgs \in UpdateArgs
     \/ cKind = "delete" /\ cArgs \in WhereArgs
     \/ cKind = "count"  /\ cArgs \in WhereArgs

CompOff == cKind = "" /\ cModel = "" /\ cArgs = Args0 /\ compiled = None

CompileSelect ==
  /\ cKind = "select" /\ compiled = None
  /\ compiled' = Some(buildSelectQuery(cModel, cArgs))
  /\ UNCHANGED <<cKind, cModel, cArgs, locVars, hVars, cacheVars>>

CompileInsert ==
  /\ cKind = "insert" /\ compiled = None
  /\ compiled' = Some(buildInsertQuery(cModel, Val(cArgs.data)))
  /\ UNCHANGED <<cKind, cModel, cArgs, locVars, hVars, cacheVars>>

CompileUpdate ==
  /\ cKind = "update" /\ compiled = None
  /\ compiled' = Some(buildUpdateQuery(cModel, cArgs))
  /\ UNCHANGED <<cKind, cModel, cArgs, locVars, hVars, cacheVars>>

CompileDelete ==
  /\ cKind = "delete" /\ compiled = None
  /\ compiled' = Some(buildDeleteQuery(cModel, cArgs))
  /\ UNCHANGED <<cKind, cModel, cArgs, locVars, hVars, cacheVars>>

CompileCount ==
  /\ cKind = "count" /\ compiled = None
  /\ compiled' = Some(buildCountQuery(cModel, cArgs))
  /\ UNCHANGED <<cKind, cModel, cArgs, locVars, hVars, cacheVars>>

CompNext ==
  \/ CompileSelect \/ CompileInsert \/ CompileUpdate
  \/ CompileDelete \/ CompileCount

\* ------------------------------------------------------------------------
\* The locator applied to bounded source texts
\* ------------------------------------------------------------------------
LogLine(v) == <<"console.log", "(", v, ")">>

CallHead(v, m, a) == <<"const", v, "=", "await", "prisma", ".", m, ".", a, "(">>

Commented(line) == <<"//">> \o line

\* const a = await prisma.user.findMany({ where: { name: 'x\\' } }): the
\* string literal ends in an escaped backslash
EscapedBackslash ==
  CallHead("a", "user", "findMany")
  \o <<"{", "where", ":", "{", "name", ":", "'", "x", "\\", "\\", "'", "}", "}", ")">>

\* the lines a source text of the locator specification is made of
LinePool ==
  { LogLine("a"),
    LogLine("b"),
    Commented(LogLine("b")),
    CallHead("a", "user", "findMany") \o <<")">>,
    CallHead("b", "post", "create") \o <<"{">>,
    <<"}", ")">>,
    <<" ">> \o Commented(CallHead("a", "tag", "count") \o <<")">>) }

\* the lines that follow an open call: }) and }), and })) and )}, and a
\* log call
Closings ==
  { <<"}", ")">>, <<"}", ")", ",">>, <<"}", ")", ")">>, <<")", "}", ",">>,
    LogLine("b") }

OpenCall == CallHead("b", "post", "create") \o <<"{">>

\* an open call and the lines after it
ClosedTexts ==
  {<<OpenCall, l2>> : l2 \in Closings}
  \cup {<<OpenCall, l2, l3>> : l2 \in Closings, l3 \in Closings}

\* const b = await prisma.$transaction([ and its elements, on more lines
\* than the block may hold
LongText ==
  [i \in 1..(BlockLineCap + 2) |->
     IF i = 1 THEN <<"const", "b", "=", "await", "prisma", ".", "$transaction", "(", "[">>
     ELSE <<"1", ",">>]

SourceTexts ==
  UNION {[1..n -> LinePool] : n \in 1..MaxLines}
  \cup {<<EscapedBackslash, LogLine("a")>>, <<EscapedBackslash, <<"}", ")">>, LogLine("a")>>}
  \cup ClosedTexts
  \cup {LongText}

NoMatch == [found |-> FALSE, model |-> "", action |-> "", paren |-> 0]

LocInit ==
  /\ lines \in SourceTexts
  /\ stage = "log"
  /\ currentVarName = ""
  /\ blockLines = << >>
  /\ methodMatch = NoMatch
  /\ payloadStr = << >>
  /\ parseError = ""

LocOff ==
  /\ lines = << >> /\ stage = "off" /\ currentVarName = "" /\ blockLines = << >>
  /\ methodMatch = NoMatch /\ payloadStr = << >> /\ parseError = ""

\* lines 25-37: look for an uncommented console.log(<identifier>)
ScanLog ==
  /\ stage = "log"
  /\ currentVarName' = currentVarNameByLog(lines)
  /\ stage' = IF currentVarName' # "" THEN "block" ELSE "const"
  /\ UNCHANGED <<lines, blockLines, methodMatch, payloadStr, parseError, compVars, hVars, cacheVars>>

\* lines 40-54: fall back to the first const ... await prisma declaration
ScanConst ==
  /\ stage = "const"
  /\ currentVarName' = currentVarNameByConst(lines)
  /\ stage' = IF currentVarName' # "" THEN "block" ELSE "noActive"
  /\ UNCHANGED <<lines, blockLines, methodMatch, payloadStr, parseError, compVars, hVars, cacheVars>>

\* lines 56-62: neither search found a binding
ThrowNoActive ==
  /\ stage = "noActive"
  /\ parseError' = "NoActiveStatement"
  /\ stage' = "thrown"
  /\ UNCHANGED <<lines, currentVarName, blockLines, methodMatch, payloadStr, compVars, hVars, cacheVars>>

\* lines 67-129: accumulate the statement block of the binding
FindBlock ==
  /\ stage = "block"
  /\ blockLines' = BlockOf(lines, currentVarName)
  /\ IF blockLines' = << >>
     THEN parseError' = "QueryNotFound" /\ stage' = "thrown"
     ELSE parseError' = parseError /\ stage' = "method"
  /\ UNCHANGED <<lines, currentVarName, methodMatch, payloadStr, compVars, hVars, cacheVars>>

\* lines 132-145: model and action of the first prisma call of the block
FindMethod ==
  /\ stage = "method"
  /\ methodMatch' = MethodMatch(JoinLines(blockLines))
  /\ IF methodMatch'.found
     THEN parseError' = parseError /\ stage' = "payload"
     ELSE parseError' = "MethodNotFound" /\ stage' = "thrown"
  /\ UNCHANGED <<lines, currentVarName, blockLines, payloadStr, compVars, hVars, cacheVars>>

\* lines 149-189: the text between the parentheses of the call
FindPayload ==
  /\ stage = "payload"
  /\ payloadStr' = PayloadStrOf(JoinLines(blockLines), methodMatch.paren)
  /\ stage' = "located"
  /\ UNCHANGED <<lines, currentVarName, blockLines, methodMatch, parseError, compVars, hVars, cacheVars>>

LocNext ==
  \/ ScanLog \/ ScanConst \/ ThrowNoActive
  \/ FindBlock \/ FindMethod \/ FindPayload

\* ------------------------------------------------------------------------
\* parseUserQuery, step 4: the payload
\* ------------------------------------------------------------------------
\* the source text of a scalar: a string literal carries its quotes
BareLiterals == {"0", "1", "2", "3", "5", "9", "true", "false", "null"}

RenderVal(v) == IF v \in BareLiterals THEN <<v>> ELSE <<"'", v, "'">>

\* the source text of an object literal
RECURSIVE RenderEntries(_)
RenderEntries(obj) ==
  IF obj = << >> THEN << >>
  ELSE <<obj[1].k, ":">> \o RenderVal(obj[1].v)
       \o (IF Len(obj) > 1 THEN <<",">> ELSE << >>) \o RenderEntries(Tail(obj))

RenderObj(obj) == <<"{">> \o RenderEntries(obj) \o <<"}">>

\* the source text of an array of object literals
RECURSIVE RenderObjs(_)
RenderObjs(objs) ==
  IF objs = << >> THEN << >>
  ELSE RenderObj(objs[1])
       \o (IF Len(objs) > 1 THEN <<",">> ELSE << >>) \o RenderObjs(Tail(objs))

RenderArray(objs) == <<"[">> \o RenderObjs(objs) \o <<"]">>

\* the properties of an argument object as source text, one per element
RenderProps(args) ==
     (IF IsSome(args.where)   THEN <<<<"where", ":">>  \o RenderObj(Val(args.where))>>    ELSE << >>)
  \o (IF IsSome(args.data)    THEN <<<<"data", ":">>   \o RenderObj(Val(args.data))>>     ELSE << >>)
  \o (IF IsSome(args.dataArr) THEN <<<<"data", ":">>   \o RenderArray(Val(args.dataArr))>> ELSE << >>)
  \o (IF IsSome(args.update)  THEN <<<<"update", ":">> \o RenderObj(Val(args.update))>>   ELSE << >>)
  \o (IF IsSome(args.create)  THEN <<<<"create", ":">> \o RenderObj(Val(args.create))>>   ELSE << >>)
  \o (IF IsSome(args.orderBy)
      THEN <<<<"orderBy", ":">> \o (IF Val(args.orderBy).isArray
                                    THEN RenderArray(Val(args.orderBy).items)
                                    ELSE RenderObj(Val(args.orderBy).items[1]))>>
      ELSE << >>)
  \o (IF IsSome(args.take)    THEN <<<<"take", ":">>   \o RenderVal(Val(args.take))>>     ELSE << >>)
  \o (IF IsSome(args.skip)    THEN <<<<"skip", ":">>   \o RenderVal(Val(args.skip))>>     ELSE << >>)

RECURSIVE JoinTokens(_, _)
JoinTokens(parts, sep) ==
  IF parts = << >> THEN << >>
  ELSE IF Len(parts) = 1 THEN parts[1]
  ELSE parts[1] \o <<sep>> \o JoinTokens(Tail(parts), sep)

\* the source text of an argument object
RenderArgs(args) == <<"{">> \o JoinTokens(RenderProps(args), ",") \o <<"}">>

\* .replace(/,\s*$/, ''): drop one trailing comma
StripTrailingComma(text) ==
  IF TrimRight(text) # << >> /\ TrimRight(text)[Len(TrimRight(text))] = ","
  THEN SubSeq(TrimRight(text), 1, Len(TrimRight(text)) - 1)
  ELSE text

\* .replace(/\/\/.*$/gm, ''): drop every // up to the end of its line
StripLineComments(text) ==
  LET commented(i) == \E k \in 1..i : /\ text[k] = "//"
                                      /\ \A m \in k..i : text[m] # "\n"
      kept == SelectSeq([i \in 1..Len(text) |-> i], LAMBDA i : ~commented(i))
  IN [j \in 1..Len(kept) |-> text[kept[j]]]

\* cleanPayload
CleanPayload(text) == Trim(StripLineComments(StripTrailingComma(text)))

\* what falls back when eval throws: {} for the simple reads, else a record
FallbackPayload(action) ==
  IF action \in {"findMany", "findFirst", "count"}
  THEN Args0
  ELSE [Args0 EXCEPT !.data = Some(<<[k |-> "name", v |-> "Teste"],
                                     [k |-> "email", v |-> "teste@exemplo.com"]>>)]

\* eval(`(${cleanPayload})`) on a literal: the value the text denotes among
\* the values of the domain; None when the text denotes none of them and
\* eval throws
Evaluate(text, domain) ==
  LET vs == {a \in domain : RenderArgs(a) = text}
  IN IF vs = {} THEN None ELSE Some(CHOOSE a \in vs : TRUE)

\* eval is a direct eval: an identifier of the text is looked up in the
\* scope of parseUserQuery.  Of that scope the constant action (line 145)
\* is kept: where the text has it as a value, eval reads the action name.
RECURSIVE ResolveFrom(_, _, _)
ResolveFrom(text, action, i) ==
  IF i > Len(text) THEN << >>
  ELSE (IF text[i] = "action" /\ i > 1 /\ text[i - 1] = ":"
        THEN RenderVal(action) ELSE <<text[i]>>)
       \o ResolveFrom(text, action, i + 1)

Resolve(text, action) == ResolveFrom(text, action, 1)

\* line 224 with the scope of the call
EvalInScope(text, action, domain) == Evaluate(Resolve(text, action), domain)

\* lines 195-252: payload stays undefined (None) for an empty payloadStr
PayloadOf(text, action, domain) ==
  IF text = << >> THEN None
  ELSE IF IsSome(EvalInScope(CleanPayload(text), action, domain))
       THEN EvalInScope(CleanPayload(text), action, domain)
       ELSE Some(FallbackPayload(action))

\* parseUserQuery as a whole: what it returns, or the Error it throws
ParseUserQuery(src, domain) ==
  LET byLog == currentVarNameByLog(src)
      v     == IF byLog # "" THEN byLog ELSE currentVarNameByConst(src)
      block == JoinLines(BlockOf(src, v))
      mm    == MethodMatch(block)
      ps    == PayloadStrOf(block, mm.paren)
      fail(e) == [error |-> e, currentVarName |-> v, model |-> "", action |-> "",
                  payload |-> None, fallback |-> FALSE]
  IN IF v = "" THEN fail("NoActiveStatement")
     ELSE IF BlockOf(src, v) = << >> THEN fail("QueryNotFound")
     ELSE IF ~mm.found THEN fail("MethodNotFound")
     ELSE [error |-> "", currentVarName |-> v, model |-> mm.model,
           action |-> mm.action, payload |-> PayloadOf(ps, mm.action, domain),
           fallback |-> ps # << >>
                        /\ ~IsSome(EvalInScope(CleanPayload(ps), mm.action, domain))]

\* ------------------------------------------------------------------------
\* The store: PostgreSQL behind client.query
\* ------------------------------------------------------------------------
\* The store holds the table "users".  Of its columns the primary key id
\* (unique, filled from a sequence when not supplied) and name are kept;
\* the other columns are accepted and read back as NULL, and their
\* constraints are not modelled.
StoreTable == "users"

StoreCols == {"id", "name"}

\* the columns the table of a statement has
ColumnsOf(table) ==
  UNION {{SCHEMA_MAPPING[m].fields[i].v : i \in 1..Len(SCHEMA_MAPPING[m].fields)} :
           m \in {n \in ModelNames : SCHEMA_MAPPING[n].table = table}}

Range(s) == {s[i] : i \in 1..Len(s)}

\* the number a LIMIT or OFFSET text denotes
NumOf(v) ==
  CASE v = "0" -> 0 [] v = "1" -> 1 [] v = "2" -> 2 [] v = "3" -> 3
    [] v = "5" -> 5 [] v = "9" -> 9 [] OTHER -> 0

RowVal(row, col) == IF col \in StoreCols THEN row[col] ELSE "NULL"

\* the row satisfies every col = $n of the WHERE clause
Matches(c, row) ==
  \A i \in 1..Len(c.whereCols) : RowVal(row, c.whereCols[i]) = c.values[c.whereIdx[i]]

\* why the server rejects the statement before running it, "" when it does not
Rejects(c) ==
  LET cols == Range(c.whereCols) \cup Range(c.orderCols)
              \cup Range(c.setCols) \cup Range(c.insertCols)
      nums == Range(c.whereIdx) \cup Range(c.setIdx) \cup Range(c.insertIdx)
      has(kw) == \E i \in 1..Len(c.clauses) : c.clauses[i] = kw
  IN IF c.table # StoreTable THEN "undefined_table"
     ELSE IF \/ has("WHERE") /\ c.whereCols = << >>
             \/ has("SET") /\ c.setCols = << >>
             \/ has("INSERT") /\ c.insertCols = << >> THEN "syntax_error"
     ELSE IF ~(cols \subseteq ColumnsOf(c.table)) THEN "undefined_column"
     ELSE IF nums # 1..Len(c.values) THEN "bind_mismatch"
     ELSE ""

Reply(e, rs, n, st) == [error |-> e, rows |-> rs, rowCount |-> n, store |-> st]

IdsUnique(rs) == \A i, j \in 1..Len(rs) : i # j => rs[i].id # rs[j].id

ParamOf(c, cols, idx, col) ==
  c.values[idx[CHOOSE i \in 1..Len(cols) : cols[i] = col]]

\* the row an INSERT adds
InsertedRow(c, st) ==
  [col \in StoreCols |->
     IF col \in Range(c.insertCols) THEN ParamOf(c, c.insertCols, c.insertIdx, col)
     ELSE IF col = "id" THEN ToString(st.seq + 1)
     ELSE "NULL"]

\* a row after the SET clause
UpdatedRow(c, row) ==
  [col \in StoreCols |->
     IF col \in Range(c.setCols) THEN ParamOf(c, c.setCols, c.setIdx, col)
     ELSE row[col]]

\* s without its first n elements
Drop(s, n) == IF n >= Len(s) THEN << >> ELSE SubSeq(s, n + 1, Len(s))

Take(s, n) == IF n >= Len(s) THEN s ELSE SubSeq(s, 1, n)

\* client.query(query, values): the reply and the store afterwards
Exec(c, st) ==
  LET kind == c.clauses[1]
      hits == SelectSeq(st.rows, LAMBDA r : Matches(c, r))
      rest == SelectSeq(st.rows, LAMBDA r : ~Matches(c, r))
      returning == \E i \in 1..Len(c.clauses) : c.clauses[i] = "RETURNING"
  IN IF Rejects(c) # "" THEN Reply(Rejects(c), << >>, 0, st)
     ELSE CASE kind = "SELECT" ->
                 LET page == Drop(hits, IF c.offset = "" THEN 0 ELSE NumOf(c.offset))
                     rs == IF c.limit = "" THEN page ELSE Take(page, NumOf(c.limit))
                 IN Reply("", rs, Len(rs), st)
            [] kind = "SELECT COUNT" ->
                 Reply("", <<[count |-> ToString(Len(hits))]>>, 1, st)
            [] kind = "INSERT" ->
                 LET row == InsertedRow(c, st)
                     seq2 == IF "id" \in Range(c.insertCols) THEN st.seq ELSE st.seq + 1
                 IN IF \E i \in 1..Len(st.rows) : st.rows[i].id = row.id
                    THEN Reply("unique_violation", << >>, 0, [st EXCEPT !.seq = seq2])
                    ELSE Reply("", <<row>>, 1,
                               [rows |-> Append(st.rows, row), seq |-> seq2])
            [] kind = "UPDATE" ->
                 LET new == [i \in 1..Len(st.rows) |->
                               IF Matches(c, st.rows[i]) THEN UpdatedRow(c, st.rows[i])
                               ELSE st.rows[i]]
                     out == [i \in 1..Len(hits) |-> UpdatedRow(c, hits[i])]
                 IN IF ~IdsUnique(new) THEN Reply("unique_violation", << >>, 0, st)
                    ELSE Reply("", IF returning THEN out ELSE << >>, Len(hits),
                               [st EXCEPT !.rows = new])
            [] kind = "DELETE" ->
                 Reply("", << >>, Len(hits), [st EXCEPT !.rows = rest])
            [] OTHER -> Reply("syntax_error", << >>, 0, st)

\* ------------------------------------------------------------------------
\* The requests and stores of the handler specification
\* ------------------------------------------------------------------------
ALLOWED_ACTIONS ==
  {"findMany", "findUnique", "findFirst", "create", "createMany", "update",
   "updateMany", "upsert", "delete", "deleteMany", "count", "aggregate", "groupBy"}

MaxBatch == 3

KV(key, v) == [k |-> key, v |-> v]

\* the records createMany batches are made of; the third leaves id to the
\* sequence of the table
BatchRecords ==
  {<<KV("id", "1"), KV("name", "x")>>,
   <<KV("id", "2"), KV("name", "x")>>,
   <<KV("name", "y")>>}

Batches == UNION {[1..n -> BatchRecords] : n \in 0..MaxBatch}

W(key, v) == Some(<<KV(key, v)>>)

Call(m, a, payload) == [model |-> m, action |-> a, payload |-> payload]

ReadPayloads ==
  {None, Some(Args0)}
  \cup {Some([Args0 EXCEPT !.where = w, !.take = t]) :
          w \in {W("id", "1"), W("name", "x"), W("id", "9"), W("evil", "1")},
          t \in {None, Some("5")}}

WritePayloads ==
  {None,
   Some(Args0),
   Some([Args0 EXCEPT !.data = Some(<<KV("id", "1"), KV("name", "x")>>)]),
   Some([Args0 EXCEPT !.data = Some(<<KV("name", "y")>>)])}
  \cup {Some([Args0 EXCEPT !.where = w, !.data = Some(<<KV("name", "y")>>)]) :
          w \in {W("id", "1"), W("name", "x"), W("id", "9")}}
  \cup {Some([Args0 EXCEPT !.where = W("id", "1"), !.data = Some(<<KV("id", "2")>>)])}
  \cup {Some([Args0 EXCEPT !.where = w, !.update = Some(<<KV("name", "y")>>),
                           !.create = Some(<<KV("name", "y")>>)]) :
          w \in {W("id", "1"), W("id", "2"), W("name", "x")}}
  \cup {Some([Args0 EXCEPT !.where = w]) :
          w \in {W("id", "1"), W("name", "x"), W("id", "9")}}

Calls ==
     {Call("user", a, pl) : a \in {"findMany", "findUnique", "findFirst", "count",
                                  "aggregate", "groupBy"}, pl \in ReadPayloads}
  \cup {Call("user", a, pl) : a \in {"create", "update", "updateMany", "upsert",
                                     "delete", "deleteMany"}, pl \in WritePayloads}
  \cup {Call("user", "createMany", pl) :
          pl \in {None} \cup {Some([Args0 EXCEPT !.dataArr = Some(b)]) : b \in Batches}}
  \cup {Call(m, a, pl) : m \in {"ghost", "toString", "constructor"},
                         a \in {"findMany", "deleteMany", "create", "executeRaw"},
                         pl \in {None, Some([Args0 EXCEPT !.data = Some(<<KV("name", "y")>>)])}}
  \cup {Call("user", a, pl) : a \in {"executeRaw", "constructor"},
                              pl \in {None, Some([Args0 EXCEPT !.data = Some(<<KV("name", "y")>>)])}}

\* the calls that are also sent in the other layouts of the source text
LayoutCalls ==
  {Call("user", "findMany", None),
   Call("user", "create", Some([Args0 EXCEPT !.data = Some(<<KV("name", "y")>>)]))}

\* const <v> = await prisma.<model>.<action>(<payload>)
Statement(v, c) ==
  CallHead(v, c.model, c.action)
  \o (IF IsSome(c.payload) THEN RenderArgs(Val(c.payload)) ELSE << >>)
  \o <<")">>

Other == Call("user", "deleteMany", None)

\* const <v> = await prisma.<model>.<action>({ where: }): a payload text
\* that is no expression
Unevaluable(v, m, a) == CallHead(v, m, a) \o <<"{", "where", ":", "}", ")">>

\* const <v> = await prisma.<model>.<action>({ where: { name: action } }):
\* a payload text that names a variable of parseUserQuery
ScopeReader(v, m, a) ==
  CallHead(v, m, a) \o <<"{", "where", ":", "{", "name", ":", "action", "}", "}", ")">>

ScopeReaders == {"findMany", "count", "deleteMany"}

\* the source texts a call is sent in
Logged(c)     == <<Statement("q", c), LogLine("q")>>
FirstConst(c) == <<Commented(Statement("z", Other)), Statement("q", c), Statement("z", Other)>>
NoActive(c)   == <<Commented(Statement("q", c)), Commented(LogLine("q"))>>

Requests ==
     {Logged(c) : c \in Calls}
  \cup {FirstConst(c) : c \in LayoutCalls}
  \cup {NoActive(c) : c \in LayoutCalls}
  \cup {<<Unevaluable("q", "user", a), LogLine("q")>> :
          a \in ALLOWED_ACTIONS \cup {"executeRaw"}}
  \cup {<<ScopeReader("q", "user", a), LogLine("q")>> : a \in ScopeReaders}

Row(id, name) == [id |-> id, name |-> name]

Stores ==
  {[rows |-> << >>, seq |-> 0],
   [rows |-> <<Row("1", "x")>>, seq |-> 1],
   [rows |-> <<Row("1", "x"), Row("2", "x")>>, seq |-> 2]}

\* ------------------------------------------------------------------------
\* The request handler (pages/api/query.ts) and the model methods
\* ------------------------------------------------------------------------
Procs == {1, 2}

\* the session identifiers requests carry
Sessions == {"s1", "s2"}

\* the argument objects eval can yield: every literal a request may carry,
\* and the objects that hold the name of an action
LiteralArgs ==
  {Val(c.payload) : c \in {d \in Calls : IsSome(d.payload)}}
  \cup {[Args0 EXCEPT !.where = W("name", a)] : a \in ScopeReaders}

\* the request's parse result
P(p) == Val(parsed[p])

\* args of the running method; a default parameter replaces undefined
ArgsOr0(p) == IF IsSome(P(p).payload) THEN Val(P(p).payload) ELSE Args0

Failure(e) == [error |-> e, kind |-> "error", rows |-> << >>, count |-> 0]

Rows(rs) == [error |-> "", kind |-> "rows", rows |-> rs, count |-> 0]

\* result.rows[0] || null
FirstOrNull(rs) ==
  IF rs = << >> THEN [error |-> "", kind |-> "null", rows |-> << >>, count |-> 0]
  ELSE [error |-> "", kind |-> "record", rows |-> <<rs[1]>>, count |-> 0]

Count(n) == [error |-> "", kind |-> "count", rows |-> << >>, count |-> n]

\* Object.create(proto): a new object without own properties
Created == [error |-> "", kind |-> "object", rows |-> << >>, count |-> 0]

Entry(p, c, reply) ==
  [proc |-> p, kind |-> c.clauses[1], query |-> c.query, values |-> c.values,
   limit |-> c.limit, error |-> reply.error, rows |-> reply.rows,
   rowCount |-> reply.rowCount]

\* the handler leaves the method: it returns r, or throws when r.error is set
Leave(p, r) ==
  /\ result' = [result EXCEPT ![p] = Some(r)]
  /\ pc' = [pc EXCEPT ![p] = IF r.error # "" THEN "catch" ELSE "respond"]

\* await client.query(c.query, c.values)
Query(p, c) ==
  /\ store' = Exec(c, store).store
  /\ sqlLog' = Append(sqlLog, Entry(p, c, Exec(c, store)))

\* lines 289-300: parseUserQuery and the allow-list test
H_Parse(p) ==
  /\ pc[p] = "start"
  /\ LET r == ParseUserQuery(query[p], LiteralArgs)
     IN /\ parsed' = [parsed EXCEPT ![p] = Some(r)]
        /\ IF r.error # "" THEN Leave(p, Failure(r.error))
           ELSE IF r.action \notin ALLOWED_ACTIONS THEN Leave(p, Failure("ActionNotAllowed"))
           ELSE pc' = [pc EXCEPT ![p] = "connect"] /\ result' = result
  /\ UNCHANGED <<sessionId, query, prisma, client, existing, count, response, store, sqlLog>>
  /\ UNCHANGED <<locVars, compVars, cacheVars>>

\* createVirtualPrismaClient: await client.connect()
H_Connect(p) ==
  /\ pc[p] = "connect"
  /\ client' = [client EXCEPT ![p] = "connected"]
  /\ pc' = [pc EXCEPT ![p] = "searchPath"]
  /\ UNCHANGED <<sessionId, query, parsed, prisma, existing, count, result, response, store, sqlLog>>
  /\ UNCHANGED <<locVars, compVars, cacheVars>>

\* a session identifier that holds a double quote: interpolated between
\* the quotes of SET search_path TO "${sessionId}", public it ends the
\* quoted identifier early and the server rejects the statement
QuotedSession == "s\"1"

SearchPathError(s) == IF s = QuotedSession THEN "syntax_error" ELSE ""

\* createVirtualPrismaClient: await client.query(`SET search_path ...`),
\* after which the handler holds the virtual client; when the statement is
\* rejected createVirtualPrismaClient throws and prisma stays null
H_SetSearchPath(p) ==
  /\ pc[p] = "searchPath"
  /\ sqlLog' = Append(sqlLog, [proc |-> p, kind |-> "SET search_path",
                               query |-> "SET search_path", values |-> << >>,
                               limit |-> "", error |-> SearchPathError(sessionId[p]),
                               rows |-> << >>, rowCount |-> 0])
  /\ IF SearchPathError(sessionId[p]) # ""
     THEN Leave(p, Failure(SearchPathError(sessionId[p]))) /\ prisma' = prisma
     ELSE /\ prisma' = [prisma EXCEPT ![p] = TRUE]
          /\ pc' = [pc EXCEPT ![p] = "dispatch"]
          /\ result' = result
  /\ UNCHANGED <<sessionId, query, parsed, client, existing, count, response, store>>
  /\ UNCHANGED <<locVars, compVars, cacheVars>>

\* the methods that read a property of args and so throw on undefined
NeedsArgs == {"create", "createMany", "update", "updateMany", "upsert", "delete", "groupBy"}

\* lines 305-313: the model test and the call of prisma[model][action].
\* prisma is an object literal, so prisma[model] is truthy for a model of
\* its own and for a property inherited from Object.prototype:
\* prisma.constructor is Object, whose create is Object.create, and
\* prisma.toString is a function without any of the allowed actions.
H_Dispatch(p) ==
  /\ pc[p] = "dispatch"
  /\ IF P(p).model \notin ModelNames \cup ProtoKeys
     THEN Leave(p, Failure("ModelNotFound"))
     ELSE IF P(p).model = "constructor" /\ P(p).action = "create"
     THEN Leave(p, IF IsSome(P(p).payload) THEN Created ELSE Failure("TypeError"))
     ELSE IF P(p).model \notin ModelNames
     THEN Leave(p, Failure("TypeError"))
     ELSE IF P(p).action \in NeedsArgs /\ ~IsSome(P(p).payload)
     THEN Leave(p, Failure("TypeError"))
     ELSE IF P(p).action = "createMany" /\ ~IsSome(Val(P(p).payload).dataArr)
     THEN Leave(p, Failure("TypeError"))
     ELSE pc' = [pc EXCEPT ![p] = P(p).action] /\ result' = result
  /\ UNCHANGED <<sessionId, query, parsed, prisma, client, existing, count, response, store, sqlLog>>
  /\ UNCHANGED <<locVars, compVars, cacheVars>>

\* what a method does with the reply of its only or last statement: it
\* throws the error of the statement, or returns r
Finish(p, c, r) ==
  /\ Query(p, c)
  /\ IF Exec(c, store).error # "" THEN Leave(p, Failure(Exec(c, store).error))
     ELSE Leave(p, r)
  /\ UNCHANGED <<sessionId, query, parsed, prisma, client, existing, count, response>>
  /\ UNCHANGED <<locVars, compVars, cacheVars>>

vm_findMany(p) ==
  /\ pc[p] = "findMany"
  /\ LET c == buildSelectQuery(P(p).model, ArgsOr0(p))
     IN Finish(p, c, Rows(Exec(c, store).rows))

\* a variant of the take override that keeps the caller's take
KeepTake(args) == args

\* { ...args, take: 1 }
TakeOne(args) == [args EXCEPT !.take = Some("1")]

vm_findUnique(p) ==
  /\ pc[p] = "findUnique"
  /\ LET c == buildSelectQuery(P(p).model, TakeOne(ArgsOr0(p)))
     IN Finish(p, c, FirstOrNull(Exec(c, store).rows))

vm_findFirst(p) ==
  /\ pc[p] = "findFirst"
  /\ LET c == buildSelectQuery(P(p).model, TakeOne(ArgsOr0(p)))
     IN Finish(p, c, FirstOrNull(Exec(c, store).rows))

\* args.data as buildInsertQuery spreads it
DataOf(args) == IF IsSome(args.data) THEN Val(args.data) ELSE << >>

vm_create(p) ==
  /\ pc[p] = "create"
  /\ LET c == buildInsertQuery(P(p).model, DataOf(ArgsOr0(p)))
     IN Finish(p, c, FirstOrNull(Exec(c, store).rows))

\* a variant of the createMany loop that swallows a failed insert and goes
\* on with the next record
vm_createManyKeepGoing(p) ==
  /\ pc[p] = "createMany"
  /\ count[p] < Len(Val(ArgsOr0(p).dataArr))
  /\ Query(p, buildInsertQuery(P(p).model, Val(ArgsOr0(p).dataArr)[count[p] + 1]))
  /\ count' = [count EXCEPT ![p] = @ + 1]
  /\ UNCHANGED <<pc, result, sessionId, query, parsed, prisma, client, existing, response>>
  /\ UNCHANGED <<locVars, compVars, cacheVars>>

\* createMany: one iteration of for (const data of args.data)
vm_createMany(p) ==
  /\ pc[p] = "createMany"
  /\ count[p] < Len(Val(ArgsOr0(p).dataArr))
  /\ LET c == buildInsertQuery(P(p).model, Val(ArgsOr0(p).dataArr)[count[p] + 1])
     IN /\ Query(p, c)
        /\ IF Exec(c, store).error # ""
           THEN Leave(p, Failure(Exec(c, store).error)) /\ count' = count
           ELSE /\ count' = [count EXCEPT ![p] = @ + 1]
                /\ UNCHANGED <<pc, result>>
  /\ UNCHANGED <<sessionId, query, parsed, prisma, client, existing, response>>
  /\ UNCHANGED <<locVars, compVars, cacheVars>>

\* createMany: return { count } once the loop is over
vm_createManyReturn(p) ==
  /\ pc[p] = "createMany"
  /\ count[p] = Len(Val(ArgsOr0(p).dataArr))
  /\ Leave(p, Count(count[p]))
  /\ UNCHANGED <<sessionId, query, parsed, prisma, client, existing, count, response, store, sqlLog>>
  /\ UNCHANGED <<locVars, compVars, cacheVars>>

\* a variant of update's reply handling that returns null for no row
NullOrFirst(r, e) == FirstOrNull(r.rows)

\* if (!result.rows[0]) throw new Error(...); return result.rows[0]
NotFoundOrFirst(r, e) == IF r.rows = << >> THEN Failure(e) ELSE FirstOrNull(r.rows)

vm_update(p) ==
  /\ pc[p] = "update"
  /\ LET c == buildUpdateQuery(P(p).model, ArgsOr0(p))
     IN Finish(p, c, NotFoundOrFirst(Exec(c, store), "NotFoundUpdate"))

\* query.replace(' RETURNING *', '')
WithoutReturning(c) ==
  [c EXCEPT !.clauses = SelectSeq(c.clauses, LAMBDA kw : kw # "RETURNING")]

vm_updateMany(p) ==
  /\ pc[p] = "updateMany"
  /\ LET c == WithoutReturning(buildUpdateQuery(P(p).model, ArgsOr0(p)))
     IN Finish(p, c, Count(Exec(c, store).rowCount))

\* upsert: the lookup this.findUnique({ where: args.where })
vm_upsert(p) ==
  /\ pc[p] = "upsert"
  /\ LET c == buildSelectQuery(P(p).model, TakeOne([Args0 EXCEPT !.where = ArgsOr0(p).where]))
     IN /\ Query(p, c)
        /\ IF Exec(c, store).error # ""
           THEN Leave(p, Failure(Exec(c, store).error)) /\ existing' = existing
           ELSE /\ existing' = [existing EXCEPT ![p] = Exec(c, store).rows]
                /\ pc' = [pc EXCEPT ![p] = IF Exec(c, store).rows # << >>
                                            THEN "upsertUpdate" ELSE "upsertCreate"]
                /\ result' = result
  /\ UNCHANGED <<sessionId, query, parsed, prisma, client, count, response>>
  /\ UNCHANGED <<locVars, compVars, cacheVars>>

\* upsert, a row exists: this.update({ where: args.where, data: args.update })
vm_upsertUpdate(p) ==
  /\ pc[p] = "upsertUpdate"
  /\ LET c == buildUpdateQuery(P(p).model,
                  [Args0 EXCEPT !.where = ArgsOr0(p).where, !.data = ArgsOr0(p).update])
     IN Finish(p, c, NotFoundOrFirst(Exec(c, store), "NotFoundUpdate"))

OrEmpty(o) == IF IsSome(o) THEN Val(o) ELSE << >>

\* a variant of the create branch in which where wins on a shared key
vm_upsertCreateWhereWins(p) ==
  /\ pc[p] = "upsertCreate"
  /\ LET c == buildInsertQuery(P(p).model,
                  Spread(Spread(<< >>, OrEmpty(ArgsOr0(p).create)),
                         OrEmpty(ArgsOr0(p).where)))
     IN Finish(p, c, FirstOrNull(Exec(c, store).rows))

\* a variant of the create branch that looks at the table again and
\* updates when a row matching where has appeared since the lookup
vm_upsertCreateRechecked(p) ==
  /\ pc[p] = "upsertCreate"
  /\ LET look == buildSelectQuery(P(p).model,
                     TakeOne([Args0 EXCEPT !.where = ArgsOr0(p).where]))
         c == IF Exec(look, store).rows # << >>
              THEN buildUpdateQuery(P(p).model,
                     [Args0 EXCEPT !.where = ArgsOr0(p).where, !.data = ArgsOr0(p).update])
              ELSE buildInsertQuery(P(p).model,
                     Spread(Spread(<< >>, OrEmpty(ArgsOr0(p).where)),
                            OrEmpty(ArgsOr0(p).create)))
     IN Finish(p, c, FirstOrNull(Exec(c, store).rows))

\* upsert, no row: this.create({ data: { ...args.where, ...args.create } })
vm_upsertCreate(p) ==
  /\ pc[p] = "upsertCreate"
  /\ LET c == buildInsertQuery(P(p).model,
                  Spread(Spread(<< >>, OrEmpty(ArgsOr0(p).where)),
                         OrEmpty(ArgsOr0(p).create)))
     IN Finish(p, c, FirstOrNull(Exec(c, store).rows))

\* a variant of delete that goes on to its DELETE whatever the lookup found
vm_deleteUnchecked(p) ==
  /\ pc[p] = "delete"
  /\ LET c == buildSelectQuery(P(p).model, TakeOne([Args0 EXCEPT !.where = ArgsOr0(p).where]))
     IN /\ Query(p, c)
        /\ IF Exec(c, store).error # ""
           THEN Leave(p, Failure(Exec(c, store).error)) /\ existing' = existing
           ELSE /\ existing' = [existing EXCEPT ![p] = Exec(c, store).rows]
                /\ pc' = [pc EXCEPT ![p] = "deleteExec"]
                /\ result' = result
  /\ UNCHANGED <<sessionId, query, parsed, prisma, client, count, response>>
  /\ UNCHANGED <<locVars, compVars, cacheVars>>

\* delete: the lookup, and the throw when nothing was found
vm_delete(p) ==
  /\ pc[p] = "delete"
  /\ LET c == buildSelectQuery(P(p).model, TakeOne([Args0 EXCEPT !.where = ArgsOr0(p).where]))
     IN /\ Query(p, c)
        /\ IF Exec(c, store).error # ""
           THEN Leave(p, Failure(Exec(c, store).error)) /\ existing' = existing
           ELSE IF Exec(c, store).rows = << >>
           THEN Leave(p, Failure("NotFoundDelete")) /\ existing' = existing
           ELSE /\ existing' = [existing EXCEPT ![p] = Exec(c, store).rows]
                /\ pc' = [pc EXCEPT ![p] = "deleteExec"]
                /\ result' = result
  /\ UNCHANGED <<sessionId, query, parsed, prisma, client, count, response>>
  /\ UNCHANGED <<locVars, compVars, cacheVars>>

\* delete: the DELETE statement; the record looked up before is returned
vm_deleteExec(p) ==
  /\ pc[p] = "deleteExec"
  /\ LET c == buildDeleteQuery(P(p).model, ArgsOr0(p))
     IN Finish(p, c, FirstOrNull(existing[p]))

\* a variant of deleteMany that throws when no row was removed
vm_deleteManyOrThrow(p) ==
  /\ pc[p] = "deleteMany"
  /\ LET c == buildDeleteQuery(P(p).model, ArgsOr0(p))
     IN Finish(p, c, IF Exec(c, store).rowCount = 0 THEN Failure("NotFoundDelete")
                     ELSE Count(Exec(c, store).rowCount))

vm_deleteMany(p) ==
  /\ pc[p] = "deleteMany"
  /\ LET c == buildDeleteQuery(P(p).model, ArgsOr0(p))
     IN Finish(p, c, Count(Exec(c, store).rowCount))

\* parseInt(result.rows[0].count)
ParseInt(v) == CHOOSE n \in 0..99 : ToString(n) = v

vm_count(p) ==
  /\ pc[p] = "count"
  /\ LET c == buildCountQuery(P(p).model, ArgsOr0(p))
     IN Finish(p, c, Count(ParseInt(Exec(c, store).rows[1].count)))

\* args.where ? { where: args.where } : {}
WhereOnly(args) == [Args0 EXCEPT !.where = args.where]

\* aggregate: this.count(...) wrapped as { _count: { _all: count } }
vm_aggregate(p) ==
  /\ pc[p] = "aggregate"
  /\ LET c == buildCountQuery(P(p).model, WhereOnly(ArgsOr0(p)))
     IN Finish(p, c, [Count(ParseInt(Exec(c, store).rows[1].count))
                        EXCEPT !.kind = "aggregate"])

\* groupBy: this.findMany(...) and the rows as they are
vm_groupBy(p) ==
  /\ pc[p] = "groupBy"
  /\ LET c == buildSelectQuery(P(p).model, WhereOnly(ArgsOr0(p)))
     IN Finish(p, c, Rows(Exec(c, store).rows))

\* lines 317-320: res.status(200).json({ success: true, result })
H_Respond(p) ==
  /\ pc[p] = "respond"
  /\ response' = [response EXCEPT ![p] = Append(@, [success |-> TRUE, result |-> Val(result[p])])]
  /\ pc' = [pc EXCEPT ![p] = "finally"]
  /\ UNCHANGED <<sessionId, query, parsed, prisma, client, existing, count, result, store, sqlLog>>
  /\ UNCHANGED <<locVars, compVars, cacheVars>>

\* a variant of the catch block that sends no response
H_CatchSilent(p) ==
  /\ pc[p] = "catch"
  /\ pc' = [pc EXCEPT ![p] = "finally"]
  /\ UNCHANGED <<sessionId, query, parsed, prisma, client, existing, count, result,
                 response, store, sqlLog>>
  /\ UNCHANGED <<locVars, compVars, cacheVars>>

\* lines 322-330: res.status(500).json({ success: false, error })
H_Catch(p) ==
  /\ pc[p] = "catch"
  /\ response' = [response EXCEPT ![p] = Append(@, [success |-> FALSE, result |-> Val(result[p])])]
  /\ pc' = [pc EXCEPT ![p] = "finally"]
  /\ UNCHANGED <<sessionId, query, parsed, prisma, client, existing, count, result, store, sqlLog>>
  /\ UNCHANGED <<locVars, compVars, cacheVars>>

\* lines 330-340: if (prisma) await prisma.$disconnect()
H_Finally(p) ==
  /\ pc[p] = "finally"
  /\ client' = [client EXCEPT ![p] = IF prisma[p] THEN "ended" ELSE @]
  /\ pc' = [pc EXCEPT ![p] = "done"]
  /\ UNCHANGED <<sessionId, query, parsed, prisma, existing, count, result, response, store, sqlLog>>
  /\ UNCHANGED <<locVars, compVars, cacheVars>>

\* ------------------------------------------------------------------------
\* The session client cache (playground-client)
\* ------------------------------------------------------------------------
CACHE_CLEANUP_INTERVAL == 1800000

CACHE_MAX_AGE == 1800000

\* how many runs of the cleanup timer are followed
MaxSweeps == 2

\* the instants the clock is looked at: around each due time of the timer
Instants ==
  {t \in {k * CACHE_CLEANUP_INTERVAL + e : k \in 0..MaxSweeps, e \in {-1, 0, 1}} :
     t >= 0 /\ t <= MaxSweeps * CACHE_CLEANUP_INTERVAL + 1}

\* clientCache.has(sessionId)
Has(s) == IsSome(clientCache[s])

Line(msg, s) == [msg |-> msg, sessionId |-> s]

\* the entries the sweep finds expired; a variant that takes the maximum
\* age itself for expired
ExpiredAtMaxAge(s) == Has(s) /\ now - Val(clientCache[s]).createdAt >= CACHE_MAX_AGE

\* now - clientData.createdAt > CACHE_MAX_AGE
Expired(s) == Has(s) /\ now - Val(clientCache[s]).createdAt > CACHE_MAX_AGE

\* the line tells that the entry of session s left the map
Removal(l, s) == l.sessionId = s /\ l.msg \in {"expired", "removed"}

\* the order Map.entries() lists the sessions in: by insertion, and a set
\* on a key the map holds keeps the place of the key
EntryOrder ==
  LET inserted(i) ==
        /\ cacheLog[i].msg = "cached"
        /\ \A k \in (i + 1)..Len(cacheLog) : ~Removal(cacheLog[k], cacheLog[i].sessionId)
        /\ \A k \in 1..(i - 1) :
             (cacheLog[k].msg = "cached" /\ cacheLog[k].sessionId = cacheLog[i].sessionId)
             => \E m \in (k + 1)..(i - 1) : Removal(cacheLog[m], cacheLog[i].sessionId)
      is == SelectSeq([i \in 1..Len(cacheLog) |-> i], inserted)
  IN [j \in 1..Len(is) |-> cacheLog[is[j]].sessionId]

\* time passes
Tick ==
  /\ \E t \in Instants : t > now /\ t <= nextSweep + 1 /\ now' = t
  /\ UNCHANGED <<clientCache, nextSweep, conns, callerPc, callerSession,
                 callerClient, callerResult, cacheLog>>
  /\ UNCHANGED <<locVars, compVars, hVars>>

\* the setInterval callback: every expired entry is deleted from the map
Sweep ==
  /\ now >= nextSweep
  /\ clientCache' = [s \in Sessions |-> IF Expired(s) THEN None ELSE clientCache[s]]
  /\ cacheLog' = cacheLog
                  \o [j \in 1..Len(SelectSeq(EntryOrder, Expired)) |->
                        Line("expired", SelectSeq(EntryOrder, Expired)[j])]
  /\ nextSweep' = now + CACHE_CLEANUP_INTERVAL
  /\ UNCHANGED <<now, conns, callerPc, callerSession, callerClient, callerResult>>
  /\ UNCHANGED <<locVars, compVars, hVars>>

\* createPlaygroundClient up to its await: a cached client is returned at
\* once; otherwise createVirtualPrismaClient makes a new pg Client and
\* starts to connect
createPlaygroundClient(p) ==
  /\ callerPc[p] = "call"
  /\ IF Has(callerSession[p])
     THEN /\ callerClient' = [callerClient EXCEPT ![p] = Val(clientCache[callerSession[p]]).client]
          /\ cacheLog' = Append(cacheLog, Line("reused", callerSession[p]))
          /\ callerPc' = [callerPc EXCEPT ![p] = "query"]
          /\ conns' = conns
     ELSE /\ conns' = Append(conns, [sessionId |-> callerSession[p], state |-> "connecting"])
          /\ callerClient' = [callerClient EXCEPT ![p] = Len(conns) + 1]
          /\ cacheLog' = Append(cacheLog, Line("creating", callerSession[p]))
          /\ callerPc' = [callerPc EXCEPT ![p] = "connecting"]
  /\ UNCHANGED <<clientCache, now, nextSweep, callerSession, callerResult>>
  /\ UNCHANGED <<locVars, compVars, hVars>>

\* createVirtualPrismaClient: client.connect() resolved, SET search_path sent
Connected(p) ==
  /\ callerPc[p] = "connecting"
  /\ conns' = [conns EXCEPT ![callerClient[p]].state = "open"]
  /\ callerPc' = [callerPc EXCEPT ![p] = "searchPath"]
  /\ UNCHANGED <<clientCache, now, nextSweep, callerSession, callerClient,
                 callerResult, cacheLog>>
  /\ UNCHANGED <<locVars, compVars, hVars>>

\* createPlaygroundClient after its await: clientCache.set and return
Cached(p) ==
  /\ callerPc[p] = "searchPath"
  /\ clientCache' = [clientCache EXCEPT ![callerSession[p]] =
                       Some([client |-> callerClient[p], createdAt |-> now])]
  /\ cacheLog' = Append(cacheLog, Line("cached", callerSession[p]))
  /\ callerPc' = [callerPc EXCEPT ![p] = "query"]
  /\ UNCHANGED <<now, nextSweep, conns, callerSession, callerClient, callerResult>>
  /\ UNCHANGED <<locVars, compVars, hVars>>

\* checkSessionConnection: client.user.findMany({ take: 1 }) is dispatched
Dispatched(p) ==
  /\ callerPc[p] = "query"
  /\ callerPc' = [callerPc EXCEPT ![p] = "inflight"]
  /\ UNCHANGED <<clientCache, now, nextSweep, conns, callerSession, callerClient,
                 callerResult, cacheLog>>
  /\ UNCHANGED <<locVars, compVars, hVars>>

\* checkSessionConnection: the query settles; true unless it threw
Settled(p) ==
  /\ callerPc[p] = "inflight"
  /\ callerResult' = [callerResult EXCEPT ![p] =
                        IF conns[callerClient[p]].state = "open" THEN "true" ELSE "false"]
  /\ callerPc' = [callerPc EXCEPT ![p] = "done"]
  /\ UNCHANGED <<clientCache, now, nextSweep, conns, callerSession, callerClient, cacheLog>>
  /\ UNCHANGED <<locVars, compVars, hVars>>

\* disconnectPlaygroundClient(s) on a cached session
disconnectPlaygroundClient(s) ==
  /\ Has(s)
  /\ clientCache' = [clientCache EXCEPT ![s] = None]
  /\ cacheLog' = Append(cacheLog, Line("removed", s))
  /\ UNCHANGED <<now, nextSweep, conns, callerPc, callerSession, callerClient, callerResult>>
  /\ UNCHANGED <<locVars, compVars, hVars>>

CacheOff ==
  /\ clientCache = [s \in Sessions |-> None]
  /\ now = 0
  /\ nextSweep = 0
  /\ conns = << >>
  /\ callerPc = [p \in Procs |-> "off"]
  /\ callerSession = [p \in Procs |-> ""]
  /\ callerClient = [p \in Procs |-> 0]
  /\ callerResult = [p \in Procs |-> ""]
  /\ cacheLog = << >>

\* the module is loaded at time 0 with an empty map; each caller asks for
\* the client of some session
CacheInit ==
  /\ clientCache = [s \in Sessions |-> None]
  /\ now = 0
  /\ nextSweep = CACHE_CLEANUP_INTERVAL
  /\ conns = << >>
  /\ callerPc = [p \in Procs |-> "call"]
  /\ callerSession \in [Procs -> Sessions]
  /\ callerClient = [p \in Procs |-> 0]
  /\ callerResult = [p \in Procs |-> ""]
  /\ cacheLog = << >>

CacheNext ==
  \/ Tick
  \/ Sweep
  \/ \E p \in Procs :
       \/ createPlaygroundClient(p) \/ Connected(p) \/ Cached(p)
       \/ Dispatched(p) \/ Settled(p)
  \/ \E s \in Sessions : disconnectPlaygroundClient(s)

\* ------------------------------------------------------------------------
\* Specifications
\* ------------------------------------------------------------------------
HOff ==
  /\ pc = [p \in Procs |-> "off"]
  /\ sessionId = [p \in Procs |-> ""]
  /\ query = [p \in Procs |-> << >>]
  /\ parsed = [p \in Procs |-> None]
  /\ prisma = [p \in Procs |-> FALSE]
  /\ client = [p \in Procs |-> "none"]
  /\ existing = [p \in Procs |-> None]
  /\ count = [p \in Procs |-> 0]
  /\ result = [p \in Procs |-> None]
  /\ response = [p \in Procs |-> << >>]
  /\ store = [rows |-> << >>, seq |-> 0]
  /\ sqlLog = << >>

\* one request: any source text of Requests against any store of Stores
HInit ==
  /\ pc = [p \in Procs |-> IF p = 1 THEN "start" ELSE "off"]
  /\ sessionId \in {[p \in Procs |-> IF p = 1 THEN s ELSE ""] : s \in {"s1", QuotedSession}}
  /\ query \in {[p \in Procs |-> IF p = 1 THEN q ELSE << >>] : q \in Requests}
  /\ sessionId[1] = QuotedSession => query[1] \in {Logged(c) : c \in LayoutCalls}
  /\ parsed = [p \in Procs |-> None]
  /\ prisma = [p \in Procs |-> FALSE]
  /\ client = [p \in Procs |-> "none"]
  /\ existing = [p \in Procs |-> None]
  /\ count = [p \in Procs |-> 0]
  /\ result = [p \in Procs |-> None]
  /\ response = [p \in Procs |-> << >>]
  /\ store \in Stores
  /\ sqlLog = << >>

HNext ==
  \E p \in Procs :
    \/ H_Parse(p) \/ H_Connect(p) \/ H_SetSearchPath(p) \/ H_Dispatch(p)
    \/ vm_findMany(p) \/ vm_findUnique(p) \/ vm_findFirst(p)
    \/ vm_create(p) \/ vm_createMany(p) \/ vm_createManyReturn(p)
    \/ vm_update(p) \/ vm_updateMany(p)
    \/ vm_upsert(p) \/ vm_upsertUpdate(p) \/ vm_upsertCreate(p)
    \/ vm_delete(p) \/ vm_deleteExec(p) \/ vm_deleteMany(p)
    \/ vm_count(p) \/ vm_aggregate(p) \/ vm_groupBy(p)
    \/ H_Respond(p) \/ H_Catch(p) \/ H_Finally(p)

\* the calls of the requests that run side by side
RaceCalls ==
     {Call("user", "upsert",
           Some([Args0 EXCEPT !.where = w, !.update = Some(<<KV("name", "y")>>),
                              !.create = Some(<<KV("name", "y")>>)])) :
        w \in {W("id", "2"), W("name", "x")}}
  \cup {Call("user", "delete", Some([Args0 EXCEPT !.where = w])) :
          w \in {W("id", "1"), W("name", "x")}}
  \cup {Call("user", "update",
              Some([Args0 EXCEPT !.where = W("id", "1"),
                                 !.data = Some(<<KV("name", "y")>>)]))}

\* two requests of one session arrive together: the event loop runs the
\* handlers interleaved at their awaits
RaceInit ==
  /\ pc = [p \in Procs |-> "start"]
  /\ sessionId = [p \in Procs |-> "s1"]
  /\ query \in {[p \in Procs |-> Logged(IF p = 1 THEN a ELSE b)] : a, b \in RaceCalls}
  /\ parsed = [p \in Procs |-> None]
  /\ prisma = [p \in Procs |-> FALSE]
  /\ client = [p \in Procs |-> "none"]
  /\ existing = [p \in Procs |-> None]
  /\ count = [p \in Procs |-> 0]
  /\ result = [p \in Procs |-> None]
  /\ response = [p \in Procs |-> << >>]
  /\ store \in Stores
  /\ sqlLog = << >>

RaceNext ==
  \E p \in Procs :
    \/ H_Parse(p) \/ H_Connect(p) \/ H_SetSearchPath(p) \/ H_Dispatch(p)
    \/ vm_update(p)
    \/ vm_upsert(p) \/ vm_upsertUpdate(p) \/ vm_upsertCreate(p)
    \/ vm_delete(p) \/ vm_deleteExec(p)
    \/ H_Respond(p) \/ H_Catch(p) \/ H_Finally(p)

\* the handler serving one request
Init == HInit /\ LocOff /\ CompOff /\ CacheOff

Spec == Init /\ [][HNext]_vars

\* the handler serving two requests of one session side by side
RaceSpecInit == RaceInit /\ LocOff /\ CompOff /\ CacheOff

RaceSpec == RaceSpecInit /\ [][RaceNext]_vars

\* the client cache serving two callers, its timer and the clock
CacheSpecInit == CacheInit /\ LocOff /\ CompOff /\ HOff

CacheSpec == CacheSpecInit /\ [][CacheNext]_vars

\* parseUserQuery on every source text of at most MaxLines lines
LocSpecInit == LocInit /\ CompOff /\ HOff /\ CacheOff

LocSpec == LocSpecInit /\ [][LocNext]_vars

\* the query builders on every argument object of at most MaxKeys keys
CompSpecInit == CompInit /\ LocOff /\ HOff /\ CacheOff

CompSpec == CompSpecInit /\ [][CompNext]_vars

\* ------------------------------------------------------------------------
\* Properties of the locator (specification LocSpec)
\* ------------------------------------------------------------------------
\* the bindings named by the uncommented log calls of a text, in line order
LoggedBindings(src) ==
  LET active == SelectSeq(src, LAMBDA l : IsActiveLogLine(l))
  IN [i \in 1..Len(active) |-> LogMatch(Trim(active[i]))]

\* the text logs at least two different bindings
SeveralLogged(src) ==
  \E i, j \in 1..Len(LoggedBindings(src)) :
     LoggedBindings(src)[i] # LoggedBindings(src)[j]

\* the uncommented lines that declare binding v with an await of prisma
DeclaringLines(src, v) ==
  {i \in 1..Len(src) : ~StartsWithComment(src[i]) /\ StartPatternTest(src[i], v)}

FirstOf(S) == CHOOSE i \in S : \A k \in S : i <= k

\* C1 as the spec states it: when a text logs several different bindings,
\* the target binding is the one named by the LAST uncommented log call.
C1_LastLogWins ==
  (stage # "log" /\ SeveralLogged(lines))
  => currentVarName = LoggedBindings(lines)[Len(LoggedBindings(lines))]

\* C1 as the code has it: when a text logs several different bindings, the
\* target binding is the one named by the FIRST uncommented log call in line
\* order (the loop breaks at its first match).
C1_FirstLogWins ==
  (stage # "log" /\ SeveralLogged(lines))
  => currentVarName = LoggedBindings(lines)[1]

\* C1 witness: a text whose first and last log calls name different
\* bindings has been located, and the first one was taken.
C1_FirstOfSeveralTaken ==
  /\ stage = "located"
  /\ SeveralLogged(lines)
  /\ LoggedBindings(lines)[1] # LoggedBindings(lines)[Len(LoggedBindings(lines))]
  /\ currentVarName = LoggedBindings(lines)[1]

\* C2 as the spec states it: a text with exactly one uncommented log call
\* whose binding has an uncommented declaration is located, and the model
\* and action returned are those of that declaring statement, whatever
\* comment lines stand before or after it.
C2_OneLogSelectsDeclaringStatement ==
  (/\ stage \in {"located", "thrown"}
   /\ Len(LoggedBindings(lines)) = 1
   /\ DeclaringLines(lines, LoggedBindings(lines)[1]) # {})
  => LET decl == lines[FirstOf(DeclaringLines(lines, LoggedBindings(lines)[1]))]
     IN /\ stage = "located"
        /\ methodMatch.model = MethodMatch(decl).model
        /\ methodMatch.action = MethodMatch(decl).action

\* ------------------------------------------------------------------------
\* Properties of the request handler (specification Spec)
\* ------------------------------------------------------------------------
\* the bindings declared by the uncommented const ... await prisma lines of
\* a text, in line order
DeclaredBindings(src) ==
  LET active == SelectSeq(src, LAMBDA l : IsActiveConstLine(l))
  IN [i \in 1..Len(active) |-> ConstMatch(Trim(active[i]))]

\* the statements request p had the store execute, session setup included
LogOf(p) == SelectSeq(sqlLog, LAMBDA e : e.proc = p)

\* the statements the model methods of request p had the store execute
StatementsOf(p) == SelectSeq(sqlLog, LAMBDA e : e.proc = p /\ e.kind # "SET search_path")

\* request p was answered with the failure e and nothing else
FailedWith(p, e) ==
  response[p] = <<[success |-> FALSE, result |-> Failure(e)]>>

\* C3: when a text holds no uncommented log call, the target binding is the
\* one declared by the FIRST uncommented const ... await prisma line; when
\* it holds no such line either, parseUserQuery throws the no-active-
\* statement error, the request goes to the failure response without a
\* connection being opened, and no statement is compiled or executed.
C3_FallbackToFirstConst ==
  \A p \in Procs :
    (IsSome(parsed[p]) /\ LoggedBindings(query[p]) = << >>)
    => IF DeclaredBindings(query[p]) # << >>
       THEN /\ P(p).error # "NoActiveStatement"
            /\ P(p).currentVarName = DeclaredBindings(query[p])[1]
       ELSE /\ P(p).error = "NoActiveStatement"
            /\ pc[p] \in {"catch", "finally", "done"}
            /\ client[p] = "none" /\ ~prisma[p]
            /\ LogOf(p) = << >>
            /\ pc[p] # "catch" => FailedWith(p, "NoActiveStatement")

\* C3 witness: a request whose text holds neither an uncommented log call
\* nor an uncommented declaration has ended with the failure response and
\* an empty statement log.
C3_NoActiveStatementEnded ==
  /\ pc[1] = "done"
  /\ query[1] # << >>
  /\ LoggedBindings(query[1]) = << >> /\ DeclaredBindings(query[1]) = << >>
  /\ FailedWith(1, "NoActiveStatement")
  /\ sqlLog = << >>

\* C5 as the spec states it: a request whose action is outside the allow-
\* list or whose model is not in SCHEMA_MAPPING ends in a failure response,
\* and no statement of a model method is executed for it (the SET
\* search_path that opens every session is not counted).
C5_UnknownActionOrModelFails ==
  \A p \in Procs :
    (/\ pc[p] = "done" /\ IsSome(parsed[p]) /\ P(p).error = ""
     /\ (P(p).action \notin ALLOWED_ACTIONS \/ P(p).model \notin ModelNames))
    => /\ Len(response[p]) = 1 /\ ~response[p][1].success
       /\ StatementsOf(p) = << >>

\* C8: every statement a findFirst or findUnique request executes is a
\* SELECT compiled with LIMIT 1, whatever take the caller supplied (a
\* larger one or none); without a skip the text is that of the same query
\* without take followed by " LIMIT 1".  What the method returns is one row
\* or null.
C8_FindFirstUniqueLimitOne ==
  \A p \in Procs :
    (/\ IsSome(parsed[p]) /\ P(p).error = "" /\ P(p).model \in ModelNames
     /\ P(p).action \in {"findFirst", "findUnique"})
    => /\ \A i \in 1..Len(StatementsOf(p)) :
            /\ StatementsOf(p)[i].kind = "SELECT"
            /\ StatementsOf(p)[i].limit = "1"
            /\ ~IsSome(ArgsOr0(p).skip)
               => StatementsOf(p)[i].query =
                    buildSelectQuery(P(p).model, [ArgsOr0(p) EXCEPT !.take = None]).query
                    \o " LIMIT 1"
       /\ (IsSome(result[p]) /\ Val(result[p]).error = "")
          => \/ Val(result[p]).kind = "null" /\ Val(result[p]).rows = << >>
             \/ Val(result[p]).kind = "record" /\ Len(Val(result[p]).rows) = 1

\* C8 witness: findFirst with take: 5 against a table holding two matching
\* rows has returned one record.
C8_OneOfTwoReturned ==
  /\ pc[1] = "done"
  /\ P(1).action = "findFirst"
  /\ ArgsOr0(1).take = Some("5")
  /\ ArgsOr0(1).where = W("name", "x")
  /\ Len(SelectSeq(store.rows, LAMBDA r : r.name = "x")) = 2
  /\ Len(StatementsOf(1)) = 1 /\ StatementsOf(1)[1].limit = "1"
  /\ response[1] = <<[success |-> TRUE, result |-> FirstOrNull(<<store.rows[1]>>)]>>

\* the INSERT statements request p had the store execute
InsertsOf(p) == SelectSeq(sqlLog, LAMBDA e : e.proc = p /\ e.kind = "INSERT")

\* C10: createMany over N records executes single-row INSERT statements
\* only, the i-th compiled from the i-th record, one after another; a row
\* an INSERT added stays in the table; count is the number of inserts that
\* succeeded; the method returns { count: N } after N successful inserts;
\* when the k-th insert fails it is the last statement executed, the
\* method throws, and count is k-1.
C10_CreateManySequential ==
  \A p \in Procs :
    (/\ IsSome(parsed[p]) /\ P(p).error = "" /\ P(p).model \in ModelNames
     /\ P(p).action = "createMany" /\ IsSome(ArgsOr0(p).dataArr))
    => LET recs == Val(ArgsOr0(p).dataArr)
           ins  == InsertsOf(p)
           ok   == {i \in 1..Len(ins) : ins[i].error = ""}
       IN /\ Len(ins) <= Len(recs)
          /\ StatementsOf(p) = ins
          /\ \A i \in 1..Len(ins) :
               /\ ins[i].query = buildInsertQuery(P(p).model, recs[i]).query
               /\ ins[i].values = buildInsertQuery(P(p).model, recs[i]).values
               /\ ins[i].error # "" => i = Len(ins)
               /\ ins[i].error = ""
                  => Len(ins[i].rows) = 1 /\ ins[i].rows[1] \in Range(store.rows)
          /\ count[p] = Cardinality(ok)
          /\ IsSome(result[p])
             => IF Val(result[p]).error = ""
                THEN /\ Val(result[p]) = Count(Len(recs))
                     /\ Len(ins) = Len(recs) /\ ok = 1..Len(recs)
                ELSE /\ Len(ins) >= 1
                     /\ ins[Len(ins)].error = Val(result[p]).error
                     /\ count[p] = Len(ins) - 1

\* C10 witness: a createMany of three records has ended in failure at its
\* second insert, with one row committed and no third insert.
C10_SecondInsertFailed ==
  /\ pc[1] = "done"
  /\ P(1).action = "createMany"
  /\ IsSome(ArgsOr0(1).dataArr)
  /\ Len(Val(ArgsOr0(1).dataArr)) = 3
  /\ Len(InsertsOf(1)) = 2
  /\ InsertsOf(1)[1].error = "" /\ InsertsOf(1)[2].error = "unique_violation"
  /\ count[1] = 1
  /\ InsertsOf(1)[1].rows[1] \in Range(store.rows)
  /\ FailedWith(1, "unique_violation")

\* ------------------------------------------------------------------------
\* Properties of the query compiler (specification CompSpec)
\* ------------------------------------------------------------------------
\* the model's field map declares the logical field
Declares(modelName, field) == HasKey(SCHEMA_MAPPING[modelName].fields, field)

\* C4 as the spec states it: every identifier of a compiled query - its
\* table and its WHERE, SET, INSERT and ORDER BY columns - is a value of
\* the model's schema descriptor, so a payload key the field map does not
\* declare never becomes an identifier.
C4_IdentifiersFromSchema ==
  IsSome(compiled)
  => ({Val(compiled).table}
      \cup Range(Val(compiled).whereCols) \cup Range(Val(compiled).setCols)
      \cup Range(Val(compiled).insertCols) \cup Range(Val(compiled).orderCols))
     \subseteq SchemaIdents(cModel)

\* the i-th WHERE placeholder is bound to the value of the i-th where key
WhereBindsKeys(c, where) ==
  /\ Len(c.whereIdx) = Len(where)
  /\ \A i \in 1..Len(where) :
       /\ c.whereIdx[i] \in 1..Len(c.values)
       /\ c.values[c.whereIdx[i]] = where[i].v

AssignedKeys(modelName, data) ==
  SelectSeq(Keys(data), LAMBDA key : Declares(modelName, key))
  \o (IF Declares(modelName, "updatedAt") /\ ~HasKey(data, "updatedAt")
      THEN <<"updatedAt">> ELSE << >>)

WhereText(where) ==
  " WHERE " \o Join([i \in 1..Len(where) |->
                       Quoted(where[i].k) \o " = $" \o ToString(i)], " AND ")

\* the ORDER BY text of a single order object or an array of them
OrderText(orderBy) ==
  " ORDER BY " \o Join([i \in 1..Len(OrderFields(orderBy)) |->
                          Quoted(OrderFields(orderBy)[i][1].k) \o " "
                          \o ToUpperCase(OrderFields(orderBy)[i][1].v)], ", ")

\* the texts a clause with an optional scalar argument may take: the clause
\* only if the argument is supplied, and always if it is supplied and truthy
ClauseTexts(keyword, arg) ==
  IF ~IsSome(arg) THEN {""}
  ELSE IF Truthy(Val(arg)) THEN {keyword \o Val(arg)}
  ELSE {"", keyword \o Val(arg)}

\* C7: findMany compiles to SELECT * FROM "<table>" followed, in the order
\* WHERE, ORDER BY, LIMIT, OFFSET, by only the clauses whose arguments were
\* supplied (each clause of a non-empty where, an orderBy, a truthy take or
\* skip is there); the parameters are the where values in key order; with
\* an empty or absent filter and nothing else the text is exactly
\* SELECT * FROM "<table>" with no parameters; and { where: { published:
\* true }, take: 5 } on user gives
\* SELECT * FROM "users" WHERE "published" = $1 LIMIT 5 with [true].
C7_FindManyClauses ==
  (cKind = "select" /\ IsSome(compiled))
  => LET c     == Val(compiled)
         head  == "SELECT * FROM " \o Quoted(SCHEMA_MAPPING[cModel].table)
         where == OrEmpty(cArgs.where)
         w     == IF where # << >> THEN WhereText(where) ELSE ""
         o     == IF IsSome(cArgs.orderBy) THEN OrderText(Val(cArgs.orderBy)) ELSE ""
     IN /\ \E l \in ClauseTexts(" LIMIT ", cArgs.take),
              f \in ClauseTexts(" OFFSET ", cArgs.skip) :
              c.query = head \o w \o o \o l \o f
        /\ c.values = [i \in 1..Len(where) |-> where[i].v]
        /\ (where = << >> /\ cArgs.orderBy = None /\ cArgs.take = None /\ cArgs.skip = None)
           => c.query = head /\ c.values = << >>
        /\ (cModel = "user"
            /\ cArgs = [Args0 EXCEPT !.where = Some(<<[k |-> "published", v |-> "true"]>>),
                                     !.take = Some("5")])
           => /\ c.query = "SELECT * FROM \"users\" WHERE \"published\" = $1 LIMIT 5"
              /\ c.values = <<"true">>

\* C7 witness: findMany with two where keys, an array orderBy, take and
\* skip was compiled to a text holding the four clauses.
C7_AllClausesCompiled ==
  /\ cKind = "select" /\ cModel = "post" /\ IsSome(compiled)
  /\ cArgs.where = Some(<<[k |-> "published", v |-> "true"], [k |-> "id", v |-> "1"]>>)
  /\ IsSome(cArgs.orderBy) /\ Val(cArgs.orderBy).isArray
  /\ cArgs.take = Some("5") /\ cArgs.skip = Some("2")
  /\ Val(compiled).clauses = <<"SELECT", "WHERE", "ORDER BY", "LIMIT", "OFFSET">>
  /\ Val(compiled).values = <<"true", "1">>

\* C9 as the spec states it: the INSERT of create holds the column
\* createdAt (updatedAt) exactly when the model declares it; its parameter
\* is the caller's value when the caller supplied one and the current
\* instant otherwise; the statement ends with RETURNING *.
C9_TimestampDefaulting ==
  (cKind = "insert" /\ IsSome(compiled))
  => /\ \A f \in {"createdAt", "updatedAt"} :
          IF Declares(cModel, f)
          THEN /\ f \in Range(Val(compiled).insertCols)
               /\ ParamOf(Val(compiled), Val(compiled).insertCols,
                          Val(compiled).insertIdx, f)
                  = IF HasKey(Val(cArgs.data), f) THEN Get(Val(cArgs.data), f) ELSE NOW
          ELSE f \notin Range(Val(compiled).insertCols)
     /\ Val(compiled).clauses[Len(Val(compiled).clauses)] = "RETURNING"

\* ------------------------------------------------------------------------
\* Properties of the write methods (specification Spec)
\* ------------------------------------------------------------------------
\* the where object of request p, empty when it has none
WhereOf(p) == OrEmpty(ArgsOr0(p).where)

\* request p has a where on kept columns that no row of the table satisfies
NoRowMatches(p) ==
  /\ WhereOf(p) # << >>
  /\ \A i \in 1..Len(WhereOf(p)) : WhereOf(p)[i].k \in StoreCols
  /\ \A r \in 1..Len(store.rows) :
       \E i \in 1..Len(WhereOf(p)) : store.rows[r][WhereOf(p)[i].k] # WhereOf(p)[i].v

\* C11: the step of update whose where matches no row issues one UPDATE
\* that affects zero rows, throws the not-found error of update, and leaves
\* the table as it was before the call.
C11_UpdateNoMatchRaises ==
  [][\A p \in Procs :
       (pc[p] = "update" /\ pc'[p] # "update" /\ NoRowMatches(p))
       => /\ result'[p] = Some(Failure("NotFoundUpdate"))
          /\ pc'[p] = "catch"
          /\ Len(sqlLog') = Len(sqlLog) + 1
          /\ sqlLog'[Len(sqlLog')].proc = p
          /\ sqlLog'[Len(sqlLog')].kind = "UPDATE"
          /\ sqlLog'[Len(sqlLog')].error = ""
          /\ sqlLog'[Len(sqlLog')].rowCount = 0
          /\ store' = store]_vars

\* C11 witness: an update by an id no row has, against a table that holds
\* rows, ended in the not-found failure after its UPDATE affected no row.
C11_NoMatchRaised ==
  /\ pc[1] = "done" /\ P(1).action = "update"
  /\ WhereOf(1) = <<KV("id", "9")>>
  /\ store.rows # << >>
  /\ FailedWith(1, "NotFoundUpdate")
  /\ Len(StatementsOf(1)) = 1
  /\ StatementsOf(1)[1].kind = "UPDATE" /\ StatementsOf(1)[1].rowCount = 0

\* the data the create branch of upsert inserts: the where keys in their
\* order, each with the value create gives it when create holds the key,
\* then the keys only create holds
MergedData(p) ==
  LET w == WhereOf(p)
      c == OrEmpty(ArgsOr0(p).create)
  IN [i \in 1..Len(w) |->
        KV(w[i].k, IF HasKey(c, w[i].k) THEN Get(c, w[i].k) ELSE w[i].v)]
     \o SelectSeq(c, LAMBDA e : ~HasKey(w, e.k))

\* request p is an upsert on the model user
IsUpsert(p) ==
  IsSome(parsed[p]) /\ P(p).error = "" /\ P(p).action = "upsert" /\ P(p).model = "user"

\* C12: an upsert running alone sends its lookup (a SELECT limited to one
\* row) first and then exactly one write: an UPDATE and no INSERT when the
\* lookup found a row, an INSERT and no UPDATE when it found none; the
\* INSERT is the one compiled from create merged over where, create winning
\* on a shared key.
C12_UpsertLookupThenOneWrite ==
  \A p \in Procs :
    IsUpsert(p)
    => LET s == StatementsOf(p)
       IN /\ Len(s) <= 2
          /\ Len(s) >= 1 => s[1].kind = "SELECT" /\ s[1].limit = "1"
          /\ Len(s) = 2
             => /\ s[1].error = ""
                /\ IF s[1].rows # << >>
                   THEN s[2].kind = "UPDATE"
                   ELSE /\ s[2].kind = "INSERT"
                        /\ s[2].query = buildInsertQuery("user", MergedData(p)).query
                        /\ s[2].values = buildInsertQuery("user", MergedData(p)).values
          /\ (pc[p] = "done" /\ Len(s) >= 1 /\ s[1].error = "") => Len(s) = 2

\* C12 witness: an upsert whose where and create share the key name found
\* no row, and its one INSERT stored the value of create.
C12_CreateWonSharedKey ==
  /\ pc[1] = "done" /\ IsUpsert(1)
  /\ WhereOf(1) = <<KV("name", "x")>>
  /\ OrEmpty(ArgsOr0(1).create) = <<KV("name", "y")>>
  /\ Len(StatementsOf(1)) = 2
  /\ StatementsOf(1)[1].rows = << >>
  /\ StatementsOf(1)[2].kind = "INSERT" /\ StatementsOf(1)[2].error = ""
  /\ StatementsOf(1)[2].rows[1].name = "y"

\* request p is a delete on the model user
IsDelete(p) ==
  IsSome(parsed[p]) /\ P(p).error = "" /\ P(p).action = "delete" /\ P(p).model = "user"

\* request p was answered with the record r and nothing else
ReturnedRecord(p, r) ==
  response[p] = <<[success |-> TRUE, result |-> FirstOrNull(<<r>>)]>>

\* C14: delete sends its lookup (a SELECT by where limited to one row)
\* first.  When the lookup finds no row, no DELETE is ever sent and the
\* request ends in the not-found failure of delete; when it finds a row,
\* the next statement is the DELETE by where, and the request returns the
\* row the lookup fetched.
C14_DeleteLooksUpFirst ==
  \A p \in Procs :
    IsDelete(p)
    => LET s == StatementsOf(p)
       IN /\ Len(s) <= 2
          /\ Len(s) >= 1
             => /\ s[1].kind = "SELECT" /\ s[1].limit = "1"
                /\ s[1].values = [i \in 1..Len(WhereOf(p)) |-> WhereOf(p)[i].v]
          /\ (Len(s) >= 1 /\ s[1].error = "" /\ s[1].rows = << >>)
             => /\ Len(s) = 1
                /\ pc[p] = "done" => FailedWith(p, "NotFoundDelete")
          /\ (Len(s) >= 1 /\ s[1].error = "" /\ s[1].rows # << >>)
             => /\ pc[p] = "done" => Len(s) = 2
                /\ Len(s) = 2
                   => /\ s[2].kind = "DELETE"
                      /\ s[2].query = buildDeleteQuery("user", ArgsOr0(p)).query
                      /\ (pc[p] = "done" /\ s[2].error = "")
                         => ReturnedRecord(p, s[1].rows[1])

\* C14 witness: a delete by id found the row, deleted it and returned the
\* row as fetched before the deletion.
C14_DeletedRowReturned ==
  /\ pc[1] = "done" /\ IsDelete(1)
  /\ WhereOf(1) = <<KV("id", "1")>>
  /\ Len(StatementsOf(1)) = 2
  /\ StatementsOf(1)[2].kind = "DELETE" /\ StatementsOf(1)[2].rowCount = 1
  /\ ReturnedRecord(1, Row("1", "x"))
  /\ \A i \in 1..Len(store.rows) : store.rows[i].id # "1"

\* ------------------------------------------------------------------------
\* Properties of concurrent requests (specification RaceSpec)
\* ------------------------------------------------------------------------
\* the statements of requests p and q overlapped: q sent a statement after
\* the lookup of p and before the write of p
Overlapped(p, q) ==
  \E i, j, k \in 1..Len(sqlLog) :
    /\ i < j /\ j < k
    /\ sqlLog[i].proc = p /\ sqlLog[i].kind = "SELECT"
    /\ sqlLog[j].proc = q /\ sqlLog[j].kind # "SET search_path"
    /\ sqlLog[k].proc = p /\ sqlLog[k].kind \in {"INSERT", "UPDATE", "DELETE"}

\* C13: no lock spans the lookup and the write of upsert or delete, and the
\* table is not looked at again.  Whatever another request of the session
\* does in between, the write of an upsert is chosen by its own lookup (an
\* INSERT when the lookup found no row, an UPDATE when it found one), and a
\* delete that sent its DELETE answers with the row of its lookup.
C13_WriteFollowsOwnLookup ==
  \A p \in Procs :
    LET s == StatementsOf(p)
    IN /\ (IsUpsert(p) /\ Len(s) >= 2)
          => /\ s[1].kind = "SELECT"
             /\ s[2].kind = IF s[1].rows = << >> THEN "INSERT" ELSE "UPDATE"
       /\ (IsDelete(p) /\ pc[p] = "done" /\ Len(s) >= 2 /\ s[2].error = "")
          => /\ s[2].kind = "DELETE"
             /\ ReturnedRecord(p, s[1].rows[1])

\* C13 witness: two upserts on the same absent key both found no row, both
\* took the create branch, and both INSERTs were accepted.
C13_BothUpsertsCreated ==
  /\ \A p \in Procs :
       /\ pc[p] = "done" /\ IsUpsert(p)
       /\ WhereOf(p) = <<KV("name", "x")>>
       /\ Len(StatementsOf(p)) = 2
       /\ StatementsOf(p)[1].rows = << >>
       /\ StatementsOf(p)[2].kind = "INSERT" /\ StatementsOf(p)[2].error = ""
  /\ Overlapped(1, 2) /\ Overlapped(2, 1)
  /\ Len(store.rows) = 2

\* the other case of C13: a delete answered with the row of its lookup
\* although another request had changed that row, or had removed it,
\* before the DELETE ran
C13_DeleteReturnedStaleRecord ==
  \E p \in Procs :
    /\ pc[p] = "done" /\ IsDelete(p)
    /\ WhereOf(p) = <<KV("id", "1")>>
    /\ ReturnedRecord(p, Row("1", "x"))
    /\ \E i \in 1..Len(sqlLog) :
         /\ sqlLog[i].proc # p /\ sqlLog[i].kind \in {"UPDATE", "DELETE"}
         /\ sqlLog[i].rowCount = 1
         /\ \E j, k \in 1..Len(sqlLog) :
              /\ j < i /\ i < k
              /\ sqlLog[j].proc = p /\ sqlLog[j].kind = "SELECT"
              /\ sqlLog[k].proc = p /\ sqlLog[k].kind = "DELETE"

\* ------------------------------------------------------------------------
\* Properties of the session client cache (specification CacheSpec)
\* ------------------------------------------------------------------------
\* caller p holds the client createPlaygroundClient returned
HoldsClient(p) == callerPc[p] \in {"query", "inflight", "done"}

\* the connections created for session s
ConnsOf(s) == {i \in 1..Len(conns) : conns[i].sessionId = s}

\* no entry of session s has left the map
NeverRemoved(s) == \A i \in 1..Len(cacheLog) : ~Removal(cacheLog[i], s)

\* C15 as the spec states it: when two callers ask for the client of the
\* same session that was not cached and whose entry never left the map,
\* exactly one connection is created for the session and both callers hold
\* that connection.
C15_OneConnectionPerNewSession ==
  \A p, q \in Procs :
    (p # q /\ callerSession[p] = callerSession[q] /\ NeverRemoved(callerSession[p]))
    => /\ Cardinality(ConnsOf(callerSession[p])) <= 1
       /\ (HoldsClient(p) /\ HoldsClient(q)) => callerClient[p] = callerClient[q]

\* C17: a run of the cleanup timer removes from the map exactly the entries
\* whose age, now minus createdAt, is greater than CACHE_MAX_AGE and leaves
\* every other entry as it was; it changes no connection and no caller, so
\* a query dispatched on an evicted client stays in flight.
C17_SweepEvictsExactlyExpired ==
  [][nextSweep' # nextSweep
     => /\ clientCache' =
             [s \in Sessions |->
                IF IsSome(clientCache[s])
                   /\ now - Val(clientCache[s]).createdAt > CACHE_MAX_AGE
                THEN None ELSE clientCache[s]]
        /\ conns' = conns
        /\ callerPc' = callerPc
        /\ callerClient' = callerClient
        /\ callerResult' = callerResult]_vars

\* C17 witness: the timer ran one millisecond late; it removed the entry of
\* s1, which was older than the maximum age, and kept the entry of s2, which
\* was exactly of the maximum age; the connection of the removed entry is
\* open and a query dispatched on it is in flight.
C17_ExpiredEvictedOtherKept ==
  /\ cacheLog # << >>
  /\ cacheLog[Len(cacheLog)] = Line("expired", "s1")
  /\ ~Has("s1")
  /\ Has("s2") /\ now - Val(clientCache["s2"]).createdAt = CACHE_MAX_AGE
  /\ \E p \in Procs :
       /\ callerSession[p] = "s1" /\ callerPc[p] = "inflight"
       /\ conns[callerClient[p]].state = "open"

\* C16 as the spec states it: at every moment a session has at most one
\* open connection, and the statements of two requests of one session are
\* never interleaved: no request sends a statement between two statements
\* of another request of the same session.
C16_OneConnectionAndSerialSql ==
  \A p, q \in Procs :
    (p # q /\ sessionId[p] = sessionId[q] /\ sessionId[p] # "")
    => /\ ~(client[p] = "connected" /\ client[q] = "connected")
       /\ ~\E i, j, k \in 1..Len(sqlLog) :
             /\ i < j /\ j < k
             /\ sqlLog[i].proc = p /\ sqlLog[j].proc = q /\ sqlLog[k].proc = p

\* ------------------------------------------------------------------------
\* Properties of the payload fallback and of failures (specification Spec)
\* ------------------------------------------------------------------------
\* the read-only actions the fallback policy names, and the write actions
ReadOnlyActions == {"findMany", "findFirst", "findUnique", "count"}

WriteActions ==
  {"create", "createMany", "update", "updateMany", "upsert", "delete", "deleteMany"}

\* the payload fallback was used for request p
UsedFallback(p) == IsSome(parsed[p]) /\ P(p).error = "" /\ P(p).fallback

\* C18 as the spec states it: when the payload text cannot be evaluated,
\* parseUserQuery does not fail for an allowed action; the payload is the
\* empty object for findMany, findFirst, findUnique and count, and a record
\* that holds data and no filter for every write action.
C18_FallbackByActionKind ==
  \A p \in Procs :
    (IsSome(parsed[p]) /\ P(p).fallback /\ P(p).action \in ALLOWED_ACTIONS)
    => /\ P(p).error = ""
       /\ IsSome(P(p).payload)
       /\ P(p).action \in ReadOnlyActions => Val(P(p).payload) = Args0
       /\ P(p).action \in WriteActions
          => /\ IsSome(Val(P(p).payload).data)
             /\ ~IsSome(Val(P(p).payload).where)

\* C19 as the spec states it: the response to a request for which the
\* payload fallback was used holds a trace with a fallback notice.
C19_FallbackNoticeReturned ==
  \A p \in Procs :
    (UsedFallback(p) /\ pc[p] = "done")
    => \E i \in 1..Len(response[p]) :
         /\ "trace" \in DOMAIN response[p][i]
         /\ \E j \in 1..Len(response[p][i].trace) : response[p][i].trace[j] = "fallback"

\* request p failed: its method or the handler threw
Failed(p) == IsSome(result[p]) /\ Val(result[p]).error # ""

\* C20: a failure reaches the caller as exactly one failure result.  A
\* statement the server rejects fails the request with the server's error;
\* from the failure on the request sends no further statement, keeps its
\* failure and is not started again, and once past the catch block its
\* responses are the one failure result.
C20_OneFailureResult ==
  [][\A p \in Procs :
       /\ (\E i \in 1..Len(LogOf(p)') : LogOf(p)'[i].error # "")
          => /\ Failed(p)'
             /\ LogOf(p)'[Len(LogOf(p)')].error = Val(result'[p]).error
       /\ Failed(p)
          => /\ LogOf(p)' = LogOf(p)
             /\ result'[p] = result[p]
             /\ parsed'[p] = parsed[p]
             /\ pc'[p] \in {"catch", "finally", "done"}
             /\ pc'[p] \in {"finally", "done"}
                => response'[p] = <<[success |-> FALSE, result |-> Val(result[p])]>>
       /\ Failed(p)' => pc'[p] \in {"catch", "finally", "done"}]_vars

\* C20 witness: an update that would give two rows the same id was rejected
\* by the server; the request ended with that one failure result, with the
\* rejected statement as its last, and the table is as it was.
C20_RejectedUpdateAnswered ==
  /\ pc[1] = "done" /\ P(1).action = "update"
  /\ FailedWith(1, "unique_violation")
  /\ Len(StatementsOf(1)) = 1 /\ StatementsOf(1)[1].error = "unique_violation"
  /\ store.rows = <<Row("1", "x"), Row("2", "x")>>

\* ------------------------------------------------------------------------
\* C21: payload text is data
\* ------------------------------------------------------------------------
\* the payload text of the request names an identifier as a value
NamesIdentifier(p) ==
  \E i \in 1..Len(query[p]) : \E j \in 2..Len(query[p][i]) :
    query[p][i][j] = "action" /\ query[p][i][j - 1] = ":"

\* C21: a payload text that holds an identifier reference is never
\* evaluated as code: it always takes the fallback path, so the payload
\* of the request is the fallback payload of its action.
C21_IdentifierTakesFallback ==
  \A p \in Procs :
    (IsSome(parsed[p]) /\ P(p).error = "" /\ NamesIdentifier(p))
      => /\ P(p).fallback
         /\ P(p).payload = Some(FallbackPayload(P(p).action))

\* ------------------------------------------------------------------------
\* C22: a call whose parenthesis is never closed
\* ------------------------------------------------------------------------
\* the scan of lines 159-184 reached the end of the block at depth > 0
SpanUnbalanced ==
  /\ stage = "located"
  /\ PayloadEnd(JoinLines(blockLines), methodMatch.paren, 0, FALSE, "") = -1

\* C22: when the block ends before the parenthesis of the call is closed,
\* payload extraction fails with UnbalancedSpanError and does not go on
\* with an empty payload.
C22_UnbalancedSpanRejected ==
  SpanUnbalanced => parseError = "UnbalancedSpan"

\* ------------------------------------------------------------------------
\* C23: quoted runs and escapes in the depth count
\* ------------------------------------------------------------------------
\* The rule as stated: inside a run a backslash escapes exactly the next
\* character, and the run is closed by the next unescaped quote of the
\* kind that opened it; outside a run a quote opens one and braces and
\* parentheses are counted.
RECURSIVE QuotedRunScan(_, _, _, _)
QuotedRunScan(st, escaped, line, j) ==
  IF j > Len(line) THEN st
  ELSE LET char == line[j]
       IN IF st.inString
          THEN IF escaped THEN QuotedRunScan(st, FALSE, line, j + 1)
               ELSE IF char = "\\" THEN QuotedRunScan(st, TRUE, line, j + 1)
               ELSE IF char = st.stringChar
                    THEN QuotedRunScan([st EXCEPT !.inString = FALSE, !.stringChar = ""],
                                       FALSE, line, j + 1)
               ELSE QuotedRunScan(st, FALSE, line, j + 1)
          ELSE IF IsQuote(char)
               THEN QuotedRunScan([st EXCEPT !.inString = TRUE, !.stringChar = char],
                                  FALSE, line, j + 1)
               ELSE QuotedRunScan(
                      [st EXCEPT !.brace = @ + (IF char = "{" THEN 1 ELSE 0)
                                             - (IF char = "}" THEN 1 ELSE 0),
                                 !.paren = @ + (IF char = "(" THEN 1 ELSE 0)
                                             - (IF char = ")" THEN 1 ELSE 0)],
                      FALSE, line, j + 1)

\* C23: on every line of the block the depth count of the scanner is the
\* count by the stated rule: braces and parentheses inside a quoted run are
\* ignored, a run is closed by an unescaped quote of its kind, and a
\* backslash escapes exactly the character after it.
C23_BackslashEscapesOneCharacter ==
  \A i \in 1..Len(blockLines) :
    ScanLine(ScanInit, blockLines[i], 1) = QuotedRunScan(ScanInit, FALSE, blockLines[i], 1)

\* ------------------------------------------------------------------------
\* C24: where block accumulation starts and stops
\* ------------------------------------------------------------------------
\* the first line the start pattern matches, 0 when there is none
DeclaringLine(src, v) ==
  LET ks == {k \in 1..Len(src) : StartPatternTest(src[k], v)}
  IN IF ks = {} THEN 0 ELSE CHOOSE k \in ks : \A m \in ks : k <= m

\* the block stops after line e: as the code decides it (asStated FALSE),
\* or as the sentence words it (asStated TRUE)
StopsAfter(src, k, e, asStated) ==
  LET d == ScanLines(ScanInit, src, k, e)
      t == Trim(src[e])
  IN \/ e = Len(src)
     \/ e - k + 1 > BlockLineCap
     \/ IF asStated
        THEN /\ d.brace = 0 /\ d.paren = 0
             /\ \/ EndsWith(t, <<")">>)
                \/ EndsWith(t, <<")", ",">>)
                \/ EndsWith(t, <<")", "}", ",">>)
        ELSE /\ d.brace = 0 /\ d.paren <= 0
             /\ \/ EndsWith(t, <<")">>)
                \/ EndsWith(t, <<"}", ",">>)

\* the lines k..e, e the first line the block stops after
BlockFrom(src, k, asStated) ==
  LET es == {e \in k..Len(src) : StopsAfter(src, k, e, asStated)}
  IN SubSeq(src, k, CHOOSE e \in es : \A m \in es : e <= m)

Accumulated == stage \in {"method", "payload", "located"} \/ parseError = "MethodNotFound"

\* C24 as the code has it: the block starts at the first line the start
\* pattern matches and stops after the first line at which the brace depth
\* is zero, the parenthesis depth is zero or below, and the trimmed line
\* ends in ")" or in "},"; failing that it stops at the end of the text or
\* once it holds more lines than the cap, so it never holds more than
\* cap + 1 lines.
C24_BlockStopsAtCloseOrCap ==
  Accumulated =>
    /\ DeclaringLine(lines, currentVarName) > 0
    /\ blockLines = BlockFrom(lines, DeclaringLine(lines, currentVarName), FALSE)
    /\ Len(blockLines) <= BlockLineCap + 1

\* C24 witness: accumulation was cut by the cap, with the call still open.
C24_CutAtCap ==
  /\ Accumulated
  /\ Len(lines) > BlockLineCap + 1
  /\ Len(blockLines) = BlockLineCap + 1
  /\ blockLines = SubSeq(lines, 1, BlockLineCap + 1)

\* C24 as stated: the block stops after the first line at which both depths
\* are exactly zero and the trimmed line ends in ")", "),", or ")},".
C24_BlockStopsAtExactZero ==
  Accumulated =>
    blockLines = BlockFrom(lines, DeclaringLine(lines, currentVarName), TRUE)

\* ------------------------------------------------------------------------
\* C25: the declaring line is no comment line
\* ------------------------------------------------------------------------
\* C25: the line the statement block starts at is never a comment line;
\* when a commented-out declaration of the binding precedes the real one,
\* the block starts at the real declaration.
C25_BlockStartsAtRealDeclaration ==
  (Accumulated /\ blockLines # << >>) => ~StartsWithComment(blockLines[1])

\* ------------------------------------------------------------------------
\* C26: deleteMany
\* ------------------------------------------------------------------------
\* "<k1>" = $1 AND "<k2>" = $2 ... for the entries i.. of a where map
RECURSIVE EqualityText(_, _)
EqualityText(w, i) ==
  IF i > Len(w) THEN ""
  ELSE Quoted(w[i].k) \o " = $" \o ToString(i)
       \o (IF i < Len(w) THEN " AND " ELSE "") \o EqualityText(w, i + 1)

\* the row satisfies every entry of the where map
Satisfies(row, w) == \A i \in 1..Len(w) : row[w[i].k] = w[i].v

C26_AllRowsRemoved ==
  /\ pc[1] = "done" /\ P(1).action = "deleteMany"
  /\ ~IsSome(P(1).payload)
  /\ store.rows = << >>
  /\ response[1] = <<[success |-> TRUE, result |-> Count(2)]>>

\* ------------------------------------------------------------------------
\* C27: findUnique without where
\* ------------------------------------------------------------------------
\* C27: a findUnique whose payload is undefined or holds no where is
\* rejected: its response is a failure, and no row of the table is
\* returned.
C27_FindUniqueRequiresWhere ==
  \A p \in Procs :
    (/\ IsSome(parsed[p]) /\ P(p).error = ""
     /\ P(p).action = "findUnique" /\ P(p).model = "user"
     /\ ~IsSome(ArgsOr0(p).where)
     /\ pc[p] = "done")
    => /\ Len(response[p]) = 1
       /\ ~response[p][1].success

\* ------------------------------------------------------------------------
\* C28: the connection of a request is closed
\* ------------------------------------------------------------------------
\* C28: when a request has completed, the connection it opened is closed,
\* on every path: success, an error after the connection exists, a
\* rejected statement, and a failure of the search_path setup that follows
\* a successful connect.
C28_ConnectionClosedAtCompletion ==
  \A p \in Procs : pc[p] = "done" => client[p] \in {"none", "ended"}

\* ------------------------------------------------------------------------
\* C29: the numbering of the placeholders
\* ------------------------------------------------------------------------
\* the numbers of the placeholders of a statement in order of appearance:
\* VALUES (...) of an INSERT, then SET, then WHERE
Placeholders(c) == c.insertIdx \o c.setIdx \o c.whereIdx

\* C29: the placeholders of every compiled statement are $1..$n in order
\* of appearance, n the length of the parameter list; an UPDATE numbers its
\* SET placeholders $1..$k and its WHERE placeholders from $k+1 on, and its
\* parameters are the SET values followed by the where values.
C29_PlaceholdersNumberedInOrder ==
  (IsSome(compiled) /\ Val(compiled).error = "")
  => LET c == Val(compiled)
         w == OrEmpty(cArgs.where)
         k == Len(c.setIdx)
     IN /\ Placeholders(c) = [i \in 1..Len(c.values) |-> i]
        /\ cKind = "update"
           => /\ c.setIdx = [i \in 1..k |-> i]
              /\ c.whereIdx = [i \in 1..Len(w) |-> k + i]
              /\ Len(c.values) = k + Len(w)
              /\ \A i \in 1..Len(w) : c.values[k + i] = w[i].v

\* C29 witness: an UPDATE with two assignments and two conditions was
\* compiled.
C29_TwoSetTwoWhere ==
  /\ cKind = "update" /\ IsSome(compiled)
  /\ Len(Val(compiled).setIdx) = 2 /\ Len(Val(compiled).whereIdx) = 2
  /\ Len(Val(compiled).values) = 4

\* ------------------------------------------------------------------------
\* C30: delete removes one row
\* ------------------------------------------------------------------------
\* C30: a successful delete removes exactly one row, the record it
\* returns: its DELETE affects one row, so the other rows that satisfy
\* where are still in the table after the call.
C30_DeleteRemovesOnlyReturnedRow ==
  \A p \in Procs :
    (IsDelete(p) /\ Len(StatementsOf(p)) = 2 /\ StatementsOf(p)[2].error = "")
    => /\ StatementsOf(p)[2].kind = "DELETE"
       /\ StatementsOf(p)[2].rowCount = 1

====
